---- MODULE Spec2Model ----
(***************************************************************************)
(* Intender: the intention matching engine (components/intention.ts,       *)
(* components/normalized-url.ts) and the navigation / inactivity decision  *)
(* engine of the background process (entrypoints/background.ts).           *)
(*                                                                         *)
(* A URL string is modelled by its parts:                                  *)
(*   kind   "web" for a host that tldts resolves to an ICANN registrable   *)
(*          domain, anything else ("about", "ip", "private") otherwise;    *)
(*   scheme TRUE when the string carries "https://";                       *)
(*   www    TRUE when the host starts with "www.";                         *)
(*   sub    the remaining subdomain label, "" when there is none;          *)
(*   name   the registrable label ("facebook"), suf the public suffix;     *)
(*   path   the path as a sequence of characters, <<>> when absent;        *)
(*   query  TRUE when a query string or fragment follows the path;         *)
(*   ids    <<>> for the URL itself; otherwise the URL is the extension's  *)
(*          intention-page.html?target=<URL>&intentionScopeId=<id>, the    *)
(*          last element of ids being the id of the outermost wrapping.    *)
(***************************************************************************)
EXTENDS Integers, Sequences, FiniteSets, TLC

\* A value for "no URL" (undefined / null / the empty string in the source).
NoUrl == [kind |-> "none", scheme |-> FALSE, www |-> FALSE, sub |-> "", name |-> "",
          suf |-> "", path |-> <<>>, query |-> FALSE, ids |-> <<>>]

\* A value for "no intention" (null in the source).
NoIntention == [id |-> "none", url |-> NoUrl]

\* A value for "no scope id" (null / undefined in the source).
NoScope == "none"

\* A value for "no tab" (an empty active-tab query result).
NoTab == 0

(***************************************************************************)
(* Language classifier (components/intention.ts).  The ISO 639-1 and ISO   *)
(* 3166-1 alpha-2 corpora are represented by the codes the model's URLs    *)
(* can contain.                                                            *)
(***************************************************************************)
Iso6391 == {"en", "sv", "fr", "de", "se"}

Alpha2 == {"se", "de", "fr", "us", "sv"}

isLanguageCode(code) ==
    \/ code \in Iso6391
    \/ \E l \in Iso6391 : \E c \in Alpha2 : code = l \o "-" \o c

isLanguageSuffix(suffix) == suffix \in Alpha2

RECURSIVE Join(_)
Join(chars) == IF chars = <<>> THEN "" ELSE Head(chars) \o Join(Tail(chars))

\* Index of the first "/" of chars at or after position i, Len(chars) + 1 if none.
RECURSIVE NextSlash(_, _)
NextSlash(chars, i) ==
    IF i > Len(chars) THEN Len(chars) + 1
    ELSE IF chars[i] = "/" THEN i ELSE NextSlash(chars, i + 1)

startsWith(s, prefix) ==
    /\ Len(prefix) <= Len(s)
    /\ SubSeq(s, 1, Len(prefix)) = prefix

\* path.match(/^\/([^\/]+)(\/.*)?$/): a "/" followed by a non-empty first segment.
extractLanguageFromPath(path) ==
    IF Len(path) < 2 \/ path[1] # "/" \/ path[2] = "/"
    THEN [language |-> "", remainingPath |-> path]
    ELSE LET e == NextSlash(path, 2)
             firstSegment == Join(SubSeq(path, 2, e - 1))
             rest == SubSeq(path, e, Len(path))
         IN  IF isLanguageCode(firstSegment)
             THEN [language |-> firstSegment, remainingPath |-> rest]
             ELSE [language |-> "", remainingPath |-> path]

(***************************************************************************)
(* URL normalization and decomposition (components/normalized-url.ts).     *)
(***************************************************************************)
\* The pieces of chars between its "/" characters.
RECURSIVE Split(_)
Split(chars) ==
    LET e == NextSlash(chars, 1) IN
    IF e > Len(chars) THEN <<chars>>
    ELSE <<SubSeq(chars, 1, e - 1)>> \o Split(SubSeq(chars, e + 1, Len(chars)))

RECURSIVE JoinPath(_)
JoinPath(segments) ==
    IF segments = <<>> THEN <<>>
    ELSE <<"/">> \o Head(segments) \o JoinPath(Tail(segments))

\* The path state of the URL parser: a ".." segment removes the segment before
\* it, a "." segment is skipped, and either of them as the last segment leaves
\* an empty last segment.
RECURSIVE RemoveDotSegments(_, _)
RemoveDotSegments(segments, out) ==
    IF segments = <<>> THEN out
    ELSE LET segment == Head(segments)
             isLast  == Len(segments) = 1
             shortened == IF out = <<>> THEN out ELSE SubSeq(out, 1, Len(out) - 1)
         IN  IF segment = <<".", ".">>
             THEN RemoveDotSegments(Tail(segments),
                                    IF isLast THEN Append(shortened, <<>>) ELSE shortened)
             ELSE IF segment = <<".">>
             THEN RemoveDotSegments(Tail(segments),
                                    IF isLast THEN Append(out, <<>>) ELSE out)
             ELSE RemoveDotSegments(Tail(segments), Append(out, segment))

\* new URL(urlStr).pathname: "/" for an absent path, dot segments resolved (a
\* path without a dot has none and is its own pathname).
UrlPathname(path) ==
    IF path = <<>> THEN <<"/">>
    ELSE IF \A i \in 1..Len(path) : path[i] # "." THEN path
    ELSE JoinPath(RemoveDotSegments(Tail(Split(path)), <<>>))

\* pathname.replace(/\/{2,}/g, '/') of normalize-url
RECURSIVE CollapseSlashes(_)
CollapseSlashes(chars) ==
    IF Len(chars) < 2 THEN chars
    ELSE IF chars[1] = "/" /\ chars[2] = "/" THEN CollapseSlashes(Tail(chars))
         ELSE <<Head(chars)>> \o CollapseSlashes(Tail(chars))

\* tldts: the string resolves to an ICANN registrable domain.  The extension's
\* own pages (host = the extension id, no dot) and about:/IP/private hosts do not.
\* Mutant of parseUrlString: the host check is missing, so a URL of the
\* extension parses as the URL in its target parameter.
parseUrlString_AnyHost(input) ==
    IF input.kind = "web"
    THEN [input EXCEPT !.scheme = TRUE, !.path = UrlPathname(@), !.ids = <<>>]
    ELSE NoUrl

parseUrlString(input) ==
    IF input.kind = "web" /\ input.ids = <<>>
    THEN [input EXCEPT !.scheme = TRUE, !.path = UrlPathname(@)]
    ELSE NoUrl

\* The escape sequences of the model's URLs and the characters they stand for.
Octets == {<<"2", "5">>, <<"4", "1">>}

OctetChar(octet) == IF octet = <<"2", "5">> THEN "%" ELSE "A"

\* Some "%" of chars is not followed by an octet (decodeURI throws URIError).
RECURSIVE Malformed(_)
Malformed(chars) ==
    IF chars = <<>> THEN FALSE
    ELSE IF Head(chars) = "%"
         THEN IF Len(chars) >= 3 /\ SubSeq(chars, 2, 3) \in Octets
              THEN Malformed(SubSeq(chars, 4, Len(chars)))
              ELSE TRUE
         ELSE Malformed(Tail(chars))

RECURSIVE DecodeOctets(_)
DecodeOctets(chars) ==
    IF chars = <<>> THEN <<>>
    ELSE IF Head(chars) = "%"
         THEN <<OctetChar(SubSeq(chars, 2, 3))>> \o DecodeOctets(SubSeq(chars, 4, Len(chars)))
         ELSE <<Head(chars)>> \o DecodeOctets(Tail(chars))

\* try { pathname = decodeURI(pathname) } catch {} of normalize-url: one pass
\* over the escape sequences, the pathname unchanged when one is malformed.
decodeURI(chars) == IF Malformed(chars) THEN chars ELSE DecodeOctets(chars)

\* removeTrailingSlash, removeSingleSlash of normalize-url
removeTrailingSlash(pathname) ==
    IF pathname # <<>> /\ pathname[Len(pathname)] = "/"
    THEN SubSeq(pathname, 1, Len(pathname) - 1)
    ELSE pathname

\* normalize-url with stripProtocol, stripWWW, removeQueryParameters, stripHash,
\* removeTrailingSlash, removeSingleSlash: duplicate slashes collapsed, the
\* pathname decoded once, the trailing slash removed.  The url is a parsed one,
\* so its pathname has no dot segment left for the library's own parse to resolve.
normalizeUrl(url) ==
    [sub  |-> url.sub,
     name |-> url.name,
     suf  |-> url.suf,
     path |-> removeTrailingSlash(decodeURI(CollapseSlashes(url.path)))]

\* The normalized string's length: host labels joined by dots, then the path.
NormalizedLength(n) ==
    (IF n.sub = "" THEN 0 ELSE Len(n.sub) + 1) + Len(n.name) + 1 + Len(n.suf)
    + Len(n.path)

\* tldts parse(hostname): domain is the registrable domain, suffix included.
toComponents(n) ==
    [domain       |-> n.name \o "." \o n.suf,
     publicSuffix |-> n.suf,
     subdomain    |-> n.sub,
     path         |-> n.path]

(***************************************************************************)
(* Intention parsing, index and matcher (components/intention.ts).         *)
(***************************************************************************)
NoScopeRecord == [domain |-> "", publicSuffix |-> "", subdomain |-> "", path |-> <<>>,
                  urlLength |-> 0, hasLanguageSuffix |-> FALSE,
                  hasLanguageSubdomain |-> FALSE, hasLanguagePathStart |-> FALSE,
                  originalUrl |-> NoUrl]

parseUrlToScope(urlString) ==
    LET parsedUrl == parseUrlString(urlString) IN
    IF parsedUrl = NoUrl THEN NoScopeRecord
    ELSE LET normalizedUrl == normalizeUrl(parsedUrl)
             c == toComponents(normalizedUrl)
         IN  [domain       |-> c.domain,
              publicSuffix |-> c.publicSuffix,
              subdomain    |-> c.subdomain,
              path         |-> c.path,
              urlLength    |-> NormalizedLength(normalizedUrl),
              hasLanguageSuffix    |-> isLanguageSuffix(c.publicSuffix),
              hasLanguageSubdomain |-> c.subdomain # "" /\ isLanguageCode(c.subdomain),
              hasLanguagePathStart |-> extractLanguageFromPath(c.path).language # "",
              originalUrl  |-> urlString]

\* Mutant of parseIntention: the raw intention is returned whatever its URL.
parseIntention_NeverNull(raw) == raw

\* A parsed intention, or NoIntention when the raw URL does not parse.
parseIntention(raw) ==
    IF parseUrlToScope(raw.url) = NoScopeRecord THEN NoIntention ELSE raw

\* mapNulls(parseIntention, intentions): the parsed intentions, in order.
RECURSIVE mapNullsParse(_)
mapNullsParse(raws) ==
    IF raws = <<>> THEN <<>>
    ELSE LET p == parseIntention(Head(raws)) IN
         IF p = NoIntention THEN mapNullsParse(Tail(raws))
         ELSE <<p>> \o mapNullsParse(Tail(raws))

ScopeOf(intention) == parseUrlToScope(intention.url)

\* Mutant of IndexKey: every scope has the same key.
IndexKey_Shared(scope) == ""

IndexKey(scope) == scope.domain \o "." \o scope.publicSuffix

\* Stable insertion of x into a list sorted by urlLength descending
\* (Array.prototype.sort is stable: equal lengths keep insertion order).
RECURSIVE InsertSorted(_, _)
InsertSorted(x, list) ==
    IF list = <<>> THEN <<x>>
    ELSE IF ScopeOf(Head(list)).urlLength >= ScopeOf(x).urlLength
         THEN <<Head(list)>> \o InsertSorted(x, Tail(list))
         ELSE <<x>> \o list

\* Mutant of SortByUrlLength: the bucket keeps the insertion order.
SortByUrlLength_InsertionOrder(list) == list

RECURSIVE SortByUrlLength(_)
SortByUrlLength(list) ==
    IF list = <<>> THEN <<>>
    ELSE InsertSorted(list[Len(list)], SortByUrlLength(SubSeq(list, 1, Len(list) - 1)))

RECURSIVE Bucket(_, _)
Bucket(intentions, key) ==
    IF intentions = <<>> THEN <<>>
    ELSE (IF IndexKey(ScopeOf(Head(intentions))) = key THEN <<Head(intentions)>> ELSE <<>>)
         \o Bucket(Tail(intentions), key)

\* Mutant of createIntentionIndex: only the first intention is in the index.
createIntentionIndex_FirstOnly(intentions) ==
    [key \in {IndexKey(ScopeOf(intentions[i])) : i \in 1..Len(intentions)} |->
        SortByUrlLength(Bucket(SubSeq(intentions, 1, 1), key))]

\* The index as the function key -> bucket, over the keys that occur.
createIntentionIndex(intentions) ==
    [key \in {IndexKey(ScopeOf(intentions[i])) : i \in 1..Len(intentions)} |->
        SortByUrlLength(Bucket(intentions, key))]

\* Mutant of PublicSuffixMatch: a language suffix of the target is not accepted.
PublicSuffixMatch_TargetStrict(targetParts, intentionScope) ==
    \/ intentionScope.hasLanguageSuffix
    \/ targetParts.publicSuffix = intentionScope.publicSuffix

\* Step 1: Public Suffix Match
PublicSuffixMatch(targetParts, intentionScope) ==
    \/ intentionScope.hasLanguageSuffix
    \/ isLanguageSuffix(targetParts.publicSuffix)
    \/ targetParts.publicSuffix = intentionScope.publicSuffix

\* Mutant of SubdomainMatch: a scope without subdomain accepts every subdomain.
SubdomainMatch_AnySubdomain(targetParts, intentionScope) ==
    IF intentionScope.subdomain # ""
    THEN IF intentionScope.hasLanguageSubdomain
         THEN targetParts.subdomain = "" \/ isLanguageCode(targetParts.subdomain)
         ELSE targetParts.subdomain = intentionScope.subdomain
    ELSE TRUE

\* Mutant of SubdomainMatch: every scope with a subdomain accepts only that one.
SubdomainMatch_AlwaysExact(targetParts, intentionScope) ==
    IF intentionScope.subdomain # ""
    THEN targetParts.subdomain = intentionScope.subdomain
    ELSE targetParts.subdomain = "" \/ isLanguageCode(targetParts.subdomain)

\* Step 2: Subdomain Match
SubdomainMatch(targetParts, intentionScope) ==
    IF intentionScope.subdomain # ""
    THEN IF intentionScope.hasLanguageSubdomain
         THEN targetParts.subdomain = "" \/ isLanguageCode(targetParts.subdomain)
         ELSE targetParts.subdomain = intentionScope.subdomain
    ELSE targetParts.subdomain = "" \/ isLanguageCode(targetParts.subdomain)

\* Mutant of PathMatch: the target path has to equal the scope path.
PathMatch_Equal(targetParts, intentionScope) ==
    \/ intentionScope.path = <<>>
    \/ targetParts.path = intentionScope.path

\* Mutant of PathMatch: the retry that strips the language segment of the
\* scope path is missing.
PathMatch_NoScopeStrip(targetParts, intentionScope) ==
    \/ intentionScope.path = <<>>
    \/ startsWith(targetParts.path, intentionScope.path)
    \/ startsWith(extractLanguageFromPath(targetParts.path).remainingPath,
                  intentionScope.path)

\* Step 3: Path Match
PathMatch(targetParts, intentionScope) ==
    \/ intentionScope.path = <<>>
    \/ startsWith(targetParts.path, intentionScope.path)
    \/ startsWith(extractLanguageFromPath(targetParts.path).remainingPath,
                  intentionScope.path)
    \/ startsWith(targetParts.path,
                  extractLanguageFromPath(intentionScope.path).remainingPath)

matchesIntentionScopeIgnoringDomain(targetUrl, intentionScope) ==
    LET parsedUrl == parseUrlString(targetUrl) IN
    IF parsedUrl = NoUrl THEN FALSE
    ELSE LET targetParts == toComponents(normalizeUrl(parsedUrl)) IN
         /\ PublicSuffixMatch(targetParts, intentionScope)
         /\ SubdomainMatch(targetParts, intentionScope)
         /\ PathMatch(targetParts, intentionScope)

\* Mutant of FindMatch: only the first element of the bucket is tried.
FindMatch_HeadOnly(targetUrl, bucket) ==
    IF bucket = <<>> THEN NoIntention
    ELSE IF matchesIntentionScopeIgnoringDomain(targetUrl, ScopeOf(Head(bucket)))
         THEN Head(bucket)
         ELSE NoIntention

\* intentions.find(...): the first element of the bucket the matcher accepts.
RECURSIVE FindMatch(_, _)
FindMatch(targetUrl, bucket) ==
    IF bucket = <<>> THEN NoIntention
    ELSE IF matchesIntentionScopeIgnoringDomain(targetUrl, ScopeOf(Head(bucket)))
         THEN Head(bucket)
         ELSE FindMatch(targetUrl, Tail(bucket))

lookupIntention(targetUrl, intentionIndex) ==
    LET targetScope == parseUrlToScope(targetUrl) IN
    IF targetScope = NoScopeRecord THEN NoIntention
    ELSE LET key == IndexKey(targetScope) IN
         IF key \notin DOMAIN intentionIndex THEN NoIntention
         ELSE FindMatch(targetUrl, intentionIndex[key])

intentionToIntentionScopeId(intention) == intention.id


(***************************************************************************)
(* Helpers of the background process (entrypoints/background.ts).          *)
(***************************************************************************)
getDomain(input) ==
    LET url == parseUrlString(input) IN
    IF url = NoUrl THEN "" ELSE toComponents(normalizeUrl(url)).domain

domainEquals(url1, url2) ==
    /\ getDomain(url1) = getDomain(url2)
    /\ getDomain(url1) # ""

\* browser.runtime.getURL('intention-page.html?target=' + encodeURIComponent(url)
\*   + '&intentionScopeId=' + encodeURIComponent(id))
IntentionPageFor(url, id) == [url EXCEPT !.ids = Append(@, id)]

\* sourceUrl.startsWith(intentionPageUrl), intentionPageUrl the extension's
\* intention-page.html
startsWithIntentionPageUrl(url) == url.ids # <<>>

\* query.get('target') of an intention page URL
TargetOf(url) == [url EXCEPT !.ids = SubSeq(@, 1, Len(@) - 1)]

\* query.get('intentionScopeId') of an intention page URL
IntentionIdOf(url) == url.ids[Len(url.ids)]

minutesToMs(minutes) == minutes * 60 * 1000

(***************************************************************************)
(* The universe of the model.                                              *)
(***************************************************************************)
Tabs == {1, 2}

Web(www, sub, name, suf, path) ==
    [kind |-> "web", scheme |-> TRUE, www |-> www, sub |-> sub, name |-> name,
     suf |-> suf, path |-> path, query |-> FALSE, ids |-> <<>>]

\* https://www.facebook.com/
Facebook == Web(TRUE, "", "facebook", "com", <<"/">>)

\* https://www.facebook.com/g/1?ref=x
FacebookGroup == [Web(TRUE, "", "facebook", "com", <<"/", "g", "/", "1">>)
                    EXCEPT !.query = TRUE]

\* https://google.com/
Google == Web(FALSE, "", "google", "com", <<"/">>)

\* about:blank, chrome://newtab/
AboutBlank == [NoUrl EXCEPT !.kind = "about", !.scheme = TRUE]

\* URLs a user or a page navigates a tab to.
NavUrls == {FacebookGroup, Google}

\* The tabs in which navigations are started; the other tab is opened on a page
\* and stays there.
NavTabs == {1}

\* The tabs that play audio.
AudioTabs == {1}

\* tab.url of a tab-created event: undefined, the new-tab page, or the page of
\* a restored or duplicated tab.
CreatedUrls == {NoUrl, AboutBlank, Facebook}

\* Stored (raw) intentions: "facebook.com" and "facebook.com/g", as typed.
IntentionA == [id |-> "a", url |-> [Web(FALSE, "", "facebook", "com", <<>>)
                                      EXCEPT !.scheme = FALSE]]

IntentionB == [id |-> "b", url |-> [Web(FALSE, "", "facebook", "com", <<"/", "g">>)
                                      EXCEPT !.scheme = FALSE]]

ScopeIds == {"a", "b"}

IntentionLists == {<<>>, <<IntentionA>>}

InactivityModes == {"off", "all", "all-except-audio"}

\* The time that passes in one step of the clock: as long as the default timeout.
TickMs == minutesToMs(30)

\* Bounds of the model.
MaxTicks == 2

MaxNavHandlers == 1

MaxChecks == 1

MaxStorageHandlers == 1

MaxNesting == 2


(***************************************************************************)
(* State.                                                                  *)
(***************************************************************************)
VARIABLES
    \* the browser and its storage (the event source and the persistence)
    tabState,       \* per tab: "new" (not yet created), "open", "closed"
    tabUrl,         \* per tab: tab.url, the URL of the committed document
    tabNav,         \* per tab: the top-level navigation in flight, or NoUrl
    tabReq,         \* per tab: the URL of an accepted tabs.update, not yet started
    tabAudible,     \* per tab: the tab is producing audio
    activeTab,      \* the focused tab, or NoTab
    stored,         \* the storage area: intentions, inactivityMode
    now,            \* Date.now()
    \* the background process
    phase,          \* "loading" until the startup storage read settles
    focusListeners, \* tabs.onActivated / tabs.onUpdated are registered
    tabUrlMap,
    lastActiveByScope,
    intentionScopePerTabId,
    intentionIndex,
    settingsCache,
    navHandlers,    \* onBeforeNavigate handlers suspended at tabs.query
    checks,         \* inactivityCheck calls suspended at tabs.query
    storageHandlers,\* storage.onChanged handlers suspended at storage.get
    \* history, for stating the claims
    reflected,      \* the tabs in which the user has completed a reflection
    last            \* the last handler run: what it read and what it commanded

browserVars == <<tabState, tabUrl, tabNav, tabReq, tabAudible, activeTab, stored, now,
                 reflected>>

mapVars == <<tabUrlMap, lastActiveByScope, intentionScopePerTabId>>

configVars == <<intentionIndex, settingsCache>>

vars == <<tabState, tabUrl, tabNav, tabReq, tabAudible, activeTab, stored, now,
          phase, focusListeners, tabUrlMap, lastActiveByScope, intentionScopePerTabId,
          intentionIndex, settingsCache, navHandlers, checks, storageHandlers, reflected,
          last>>

NoEvent == [ev |-> "none", origin |-> "", tabId |-> NoTab, frameId |-> 0,
            targetUrl |-> NoUrl, sourceUrl |-> NoUrl, queryFailed |-> FALSE,
            activeTabId |-> NoTab, activeTabUrl |-> NoUrl, scope |-> NoScope,
            lastActive |-> 0, redirect |-> NoUrl, scopeUrl |-> NoUrl,
            matched |-> FALSE, normalized |-> normalizeUrl(NoUrl),
            renormalized |-> normalizeUrl(NoUrl),
            input |-> <<>>, expected |-> <<>>, maxDistance |-> 0, partial |-> FALSE]

Init ==
    /\ tabState = [t \in Tabs |-> IF t = 1 THEN "open" ELSE "new"]
    /\ \E u \in {AboutBlank, Facebook} :
          tabUrl = [t \in Tabs |-> IF t = 1 THEN u ELSE NoUrl]
    /\ tabNav = [t \in Tabs |-> NoUrl]
    /\ tabReq = [t \in Tabs |-> NoUrl]
    /\ tabAudible = [t \in Tabs |-> FALSE]
    /\ activeTab = 1
    /\ stored \in [intentions : IntentionLists, inactivityMode : InactivityModes]
    /\ now = 1
    /\ phase = "loading"
    /\ focusListeners = FALSE
    /\ tabUrlMap = [t \in Tabs |-> NoUrl]
    /\ lastActiveByScope = [s \in ScopeIds |-> 0]
    /\ intentionScopePerTabId = [t \in Tabs |-> NoScope]
    /\ intentionIndex = createIntentionIndex(<<>>)
    /\ settingsCache = [inactivityMode |-> "off", inactivityTimeoutMs |-> minutesToMs(30)]
    /\ navHandlers = {}
    /\ checks = {}
    /\ storageHandlers = {}
    /\ reflected = {}
    /\ last = NoEvent

(***************************************************************************)
(* The background process: helpers that read or write its state.           *)
(***************************************************************************)
lookupIntentionScopeId(url) ==
    LET matchedIntention == lookupIntention(url, intentionIndex) IN
    IF matchedIntention = NoIntention THEN NoScope
    ELSE intentionToIntentionScopeId(matchedIntention)

\* lastActiveByScope after updateIntentionScopeActivity(id)
updateIntentionScopeActivity(map, intentionScopeId) ==
    [map EXCEPT ![intentionScopeId] = now]

\* Mutant of shouldTriggerInactivity: the test of the mode is missing.
shouldTriggerInactivity_IgnoresMode(intentionScopeId, mode, timeoutMs) ==
    IF lastActiveByScope[intentionScopeId] = 0 THEN FALSE
    ELSE now - lastActiveByScope[intentionScopeId] > timeoutMs

\* Mutant of shouldTriggerInactivity: >= in place of >.
shouldTriggerInactivity_AtTimeout(intentionScopeId, mode, timeoutMs) ==
    IF mode = "off" THEN FALSE
    ELSE IF lastActiveByScope[intentionScopeId] = 0 THEN FALSE
    ELSE now - lastActiveByScope[intentionScopeId] >= timeoutMs

shouldTriggerInactivity(intentionScopeId, mode, timeoutMs) ==
    IF mode = "off" THEN FALSE
    ELSE IF lastActiveByScope[intentionScopeId] = 0 THEN FALSE
    ELSE now - lastActiveByScope[intentionScopeId] > timeoutMs

\* Mutant of tabsUpdate: the call is left out.
tabsUpdate_LeftOut(tabId, url) ==
    tabReq' = tabReq

\* browser.tabs.update(tabId, {url}): accepted for an open tab; it rejects for a
\* tab that is gone, and the rejection is caught and logged.
tabsUpdate(tabId, url) ==
    tabReq' = IF tabState[tabId] = "open" THEN [tabReq EXCEPT ![tabId] = url] ELSE tabReq

\* storage.get(): the keys it asks the backend for, among them intentions and
\* inactivityMode; inactivityTimeoutMs is not one of them, so the result has no
\* such field.
storageGet ==
    [intentions |-> stored.intentions,
     inactivityMode |-> stored.inactivityMode]


(***************************************************************************)
(* Startup: defineBackground awaits storage.get() before any listener is   *)
(* registered; tabs.onActivated and tabs.onUpdated are registered inside   *)
(* the try block, the other listeners after it.                            *)
(***************************************************************************)
LoadOk ==
    /\ phase = "loading"
    /\ LET got == storageGet IN
       /\ intentionIndex' = createIntentionIndex(mapNullsParse(got.intentions))
       /\ settingsCache' =
            [inactivityMode |-> got.inactivityMode,
             inactivityTimeoutMs |-> minutesToMs(30)]
    /\ focusListeners' = TRUE
    /\ phase' = "running"
    /\ last' = NoEvent
    /\ UNCHANGED <<browserVars, mapVars, navHandlers, checks, storageHandlers>>

\* Mutant of LoadFail: the focus and audio listeners are registered after the
\* catch as well.
LoadFail_FocusListenersRegistered ==
    /\ phase = "loading"
    /\ phase' = "running"
    /\ focusListeners' = TRUE
    /\ last' = NoEvent
    /\ UNCHANGED <<browserVars, mapVars, configVars, navHandlers, checks,
                   storageHandlers>>

LoadFail ==
    /\ phase = "loading"
    /\ phase' = "running"
    /\ last' = NoEvent
    /\ UNCHANGED <<browserVars, mapVars, configVars, focusListeners, navHandlers, checks,
                   storageHandlers>>

(***************************************************************************)
(* Tab lifecycle events.                                                   *)
(***************************************************************************)
\* tabs.onCreated listener
onCreated(tabId, url) ==
    /\ tabUrlMap' = IF url # NoUrl THEN [tabUrlMap EXCEPT ![tabId] = url] ELSE tabUrlMap
    /\ UNCHANGED <<lastActiveByScope, intentionScopePerTabId>>

TabCreated(t, u) ==
    /\ tabState[t] = "new"
    /\ tabState' = [tabState EXCEPT ![t] = "open"]
    /\ tabUrl' = [tabUrl EXCEPT ![t] = u]
    /\ IF phase = "running" THEN onCreated(t, u) ELSE UNCHANGED mapVars
    /\ last' = NoEvent
    /\ UNCHANGED <<tabNav, tabReq, tabAudible, reflected, activeTab, stored, now, phase,
                   focusListeners, configVars, navHandlers, checks, storageHandlers>>

\* tabs.onRemoved listener
onRemoved(tabId) ==
    /\ tabUrlMap' = [tabUrlMap EXCEPT ![tabId] = NoUrl]
    /\ intentionScopePerTabId' = [intentionScopePerTabId EXCEPT ![tabId] = NoScope]
    /\ UNCHANGED lastActiveByScope

TabRemoved(t) ==
    /\ tabState[t] = "open"
    /\ tabState' = [tabState EXCEPT ![t] = "closed"]
    /\ tabUrl' = [tabUrl EXCEPT ![t] = NoUrl]
    /\ tabNav' = [tabNav EXCEPT ![t] = NoUrl]
    /\ tabReq' = [tabReq EXCEPT ![t] = NoUrl]
    /\ tabAudible' = [tabAudible EXCEPT ![t] = FALSE]
    /\ reflected' = reflected \ {t}
    /\ activeTab' = IF activeTab = t THEN NoTab ELSE activeTab
    /\ IF phase = "running" THEN onRemoved(t) ELSE UNCHANGED mapVars
    /\ last' = NoEvent
    /\ UNCHANGED <<stored, now, phase, focusListeners, configVars, navHandlers, checks,
                   storageHandlers>>

\* tabs.onActivated listener (it ends at its await of tabs.update)
onActivated(tabId) ==
    LET url == tabUrlMap[tabId]
        intentionScopeId == IF url = NoUrl THEN NoScope ELSE lookupIntentionScopeId(url)
        ev == [NoEvent EXCEPT !.ev = "activated", !.tabId = tabId, !.sourceUrl = url,
                              !.scope = intentionScopeId]
    IN
    IF intentionScopeId = NoScope
    THEN /\ last' = ev
         /\ UNCHANGED <<mapVars, tabReq>>
    ELSE IF shouldTriggerInactivity(intentionScopeId, settingsCache.inactivityMode,
                                    settingsCache.inactivityTimeoutMs)
    THEN /\ tabsUpdate(tabId, IntentionPageFor(url, intentionScopeId))
         /\ last' = [ev EXCEPT !.lastActive = lastActiveByScope[intentionScopeId],
                               !.redirect = IntentionPageFor(url, intentionScopeId)]
         /\ UNCHANGED mapVars
    ELSE /\ lastActiveByScope' = updateIntentionScopeActivity(lastActiveByScope,
                                                              intentionScopeId)
         /\ last' = [ev EXCEPT !.lastActive = lastActiveByScope[intentionScopeId]]
         /\ UNCHANGED <<tabUrlMap, intentionScopePerTabId, tabReq>>

TabActivated(t) ==
    /\ tabState[t] = "open"
    /\ activeTab # t
    /\ activeTab' = t
    /\ IF focusListeners
       THEN onActivated(t)
       ELSE /\ last' = NoEvent
            /\ UNCHANGED <<mapVars, tabReq>>
    /\ UNCHANGED <<tabState, tabUrl, tabNav, tabAudible, reflected, stored, now, phase,
                   focusListeners, configVars, navHandlers, checks, storageHandlers>>

\* The window loses focus: the active-tab query then returns no tab.
WindowBlurred ==
    /\ activeTab # NoTab
    /\ activeTab' = NoTab
    /\ last' = NoEvent
    /\ UNCHANGED <<tabState, tabUrl, tabNav, tabReq, tabAudible, reflected, stored, now, phase,
                   focusListeners, mapVars, configVars, navHandlers, checks,
                   storageHandlers>>

\* tabs.onUpdated listener, for a changeInfo that carries audible
\* Mutant of onUpdated: the test of changeInfo.audible is missing, so audio
\* stopping refreshes the scope's activity as audio starting does.
onUpdated_AnyAudioChange(tabId, audible) ==
    LET url == tabUrlMap[tabId]
        intentionScopeId == IF url = NoUrl THEN NoScope ELSE lookupIntentionScopeId(url)
    IN
    /\ lastActiveByScope' =
          IF intentionScopeId # NoScope
          THEN updateIntentionScopeActivity(lastActiveByScope, intentionScopeId)
          ELSE lastActiveByScope
    /\ UNCHANGED <<tabUrlMap, intentionScopePerTabId>>

onUpdated(tabId, audible) ==
    LET url == tabUrlMap[tabId]
        intentionScopeId == IF url = NoUrl THEN NoScope ELSE lookupIntentionScopeId(url)
    IN
    /\ lastActiveByScope' =
          IF intentionScopeId # NoScope /\ audible
          THEN updateIntentionScopeActivity(lastActiveByScope, intentionScopeId)
          ELSE lastActiveByScope
    /\ UNCHANGED <<tabUrlMap, intentionScopePerTabId>>

TabUpdated(t, audible) ==
    /\ tabState[t] = "open"
    /\ tabAudible[t] # audible
    /\ tabAudible' = [tabAudible EXCEPT ![t] = audible]
    /\ IF focusListeners THEN onUpdated(t, audible) ELSE UNCHANGED mapVars
    /\ last' = NoEvent
    /\ UNCHANGED <<tabState, tabUrl, tabNav, tabReq, activeTab, stored, now, phase,
                   focusListeners, configVars, navHandlers, checks, storageHandlers,
                   reflected>>


(***************************************************************************)
(* Navigation events.                                                      *)
(***************************************************************************)
\* webNavigation.onCommitted listener
\* Mutant of onCommitted: the test of details.frameId is missing.
onCommitted_AnyFrame(tabId, frameId, url) ==
    LET matched == lookupIntention(url, intentionIndex) IN
    /\ tabUrlMap' = [tabUrlMap EXCEPT ![tabId] = url]
    /\ IF matched # NoIntention
       THEN /\ intentionScopePerTabId' =
                 [intentionScopePerTabId EXCEPT
                     ![tabId] = intentionToIntentionScopeId(matched)]
            /\ lastActiveByScope' =
                 updateIntentionScopeActivity(lastActiveByScope,
                                              intentionToIntentionScopeId(matched))
       ELSE UNCHANGED <<intentionScopePerTabId, lastActiveByScope>>

onCommitted(tabId, frameId, url) ==
    IF frameId = 0
    THEN LET matched == lookupIntention(url, intentionIndex) IN
         /\ tabUrlMap' = [tabUrlMap EXCEPT ![tabId] = url]
         /\ IF matched # NoIntention
            THEN /\ intentionScopePerTabId' =
                      [intentionScopePerTabId EXCEPT
                          ![tabId] = intentionToIntentionScopeId(matched)]
                 /\ lastActiveByScope' =
                      updateIntentionScopeActivity(lastActiveByScope,
                                                   intentionToIntentionScopeId(matched))
            ELSE UNCHANGED <<intentionScopePerTabId, lastActiveByScope>>
    ELSE UNCHANGED mapVars

\* The navigation in flight in tab t commits (frameId 0), or a sub-frame of the
\* tab's document commits a navigation to u (frameId 1).
Committed(t, frameId, u) ==
    /\ tabState[t] = "open"
    /\ IF frameId = 0
       THEN /\ tabNav[t] # NoUrl
            /\ u = tabNav[t]
            /\ tabUrl' = [tabUrl EXCEPT ![t] = u]
            /\ tabNav' = [tabNav EXCEPT ![t] = NoUrl]
       ELSE /\ tabUrl[t] # NoUrl
            /\ UNCHANGED <<tabUrl, tabNav>>
    /\ IF phase = "running" THEN onCommitted(t, frameId, u) ELSE UNCHANGED mapVars
    /\ last' = NoEvent
    /\ UNCHANGED <<tabState, tabReq, tabAudible, reflected, activeTab, stored, now, phase,
                   focusListeners, configVars, navHandlers, checks, storageHandlers>>

\* Mutant of onBeforeNavigate: the frameId test is missing.
onBeforeNavigate_AnyFrame(tabId, frameId, url) ==
    IF phase = "running"
    THEN LET h == [tabId |-> tabId, frameId |-> frameId, targetUrl |-> url,
                   sourceUrl |-> tabUrlMap[tabId]] IN
         /\ h \notin navHandlers
         /\ Cardinality(navHandlers) < MaxNavHandlers
         /\ navHandlers' = navHandlers \cup {h}
    ELSE UNCHANGED navHandlers

\* Mutant of onBeforeNavigate: the listener is registered before the startup load.
onBeforeNavigate_BeforeLoad(tabId, frameId, url) ==
    IF frameId = 0
    THEN LET h == [tabId |-> tabId, frameId |-> frameId, targetUrl |-> url,
                   sourceUrl |-> tabUrlMap[tabId]] IN
         /\ h \notin navHandlers
         /\ Cardinality(navHandlers) < MaxNavHandlers
         /\ navHandlers' = navHandlers \cup {h}
    ELSE UNCHANGED navHandlers

\* webNavigation.onBeforeNavigate listener, up to its await of tabs.query
onBeforeNavigate(tabId, frameId, url) ==
    IF phase = "running" /\ frameId = 0
    THEN LET h == [tabId |-> tabId, frameId |-> frameId, targetUrl |-> url,
                   sourceUrl |-> tabUrlMap[tabId]] IN
         /\ h \notin navHandlers
         /\ Cardinality(navHandlers) < MaxNavHandlers
         /\ navHandlers' = navHandlers \cup {h}
    ELSE UNCHANGED navHandlers

BeforeNavigateEvent(t, frameId, u) ==
    /\ onBeforeNavigate(t, frameId, u)
    /\ last' = IF frameId = 0 THEN NoEvent
               ELSE [NoEvent EXCEPT !.ev = "subframe", !.tabId = t, !.frameId = frameId,
                                    !.targetUrl = u]
    /\ UNCHANGED <<tabState, tabUrl, tabAudible, activeTab, stored, now, phase,
                   focusListeners, mapVars, configVars, checks, storageHandlers>>

\* The user (address bar, link) or a page starts a navigation of tab t to u;
\* frameId 1 is a navigation of a sub-frame of the tab's document.
Navigate(t, frameId, u) ==
    /\ tabState[t] = "open"
    /\ IF frameId = 0
       THEN tabNav' = [tabNav EXCEPT ![t] = u]
       ELSE tabUrl[t] # NoUrl /\ tabNav' = tabNav
    /\ tabReq' = tabReq
    /\ reflected' = reflected
    /\ BeforeNavigateEvent(t, frameId, u)

\* The navigation requested by an accepted tabs.update starts.
RedirectNavigate(t) ==
    /\ tabState[t] = "open"
    /\ tabReq[t] # NoUrl
    /\ tabNav' = [tabNav EXCEPT ![t] = tabReq[t]]
    /\ tabReq' = [tabReq EXCEPT ![t] = NoUrl]
    /\ reflected' = reflected
    /\ BeforeNavigateEvent(t, 0, tabReq[t])

\* The user completes reflection on the intention page shown in tab t
\* (entrypoints/intention-page/main.ts): window.location.href = target.
ReflectionComplete(t) ==
    /\ tabState[t] = "open"
    /\ startsWithIntentionPageUrl(tabUrl[t])
    /\ \E i \in 1..Len(stored.intentions) :
          stored.intentions[i].id = IntentionIdOf(tabUrl[t])
    /\ tabNav' = [tabNav EXCEPT ![t] = TargetOf(tabUrl[t])]
    /\ tabReq' = tabReq
    /\ reflected' = reflected \cup {t}
    /\ BeforeNavigateEvent(t, 0, TargetOf(tabUrl[t]))

\* The rule cascade of the onBeforeNavigate listener, after tabs.query resolved.
\* Mutant of Rule1: the rule is missing.
Rule1_Missing(sourceUrl, targetUrl) ==
    FALSE

Rule1(sourceUrl, targetUrl) ==
    sourceUrl # NoUrl /\ domainEquals(sourceUrl, targetUrl)

\* Mutant of Rule2: any known source allows.
Rule2_AnySource(sourceUrl) ==
    sourceUrl # NoUrl

\* Mutant of Rule2: the rule is missing.
Rule2_Missing(sourceUrl) ==
    FALSE

Rule2(sourceUrl) ==
    sourceUrl # NoUrl /\ startsWithIntentionPageUrl(sourceUrl)

\* Mutant of Rule3: the test that the navigation is not in the active tab is missing.
Rule3_AnyTab(isNavigationTabActive, activeTabUrl, targetUrl) ==
    /\ activeTabUrl # NoUrl
    /\ domainEquals(activeTabUrl, targetUrl)

Rule3(isNavigationTabActive, activeTabUrl, targetUrl) ==
    /\ ~isNavigationTabActive
    /\ activeTabUrl # NoUrl
    /\ domainEquals(activeTabUrl, targetUrl)

\* Mutant of ActiveTabs: a query that throws is taken to name the focused tab.
ActiveTabs_FailureIgnored(queryFailed) ==
    IF activeTab = NoTab THEN <<>>
    ELSE <<[id |-> activeTab, url |-> tabUrl[activeTab]]>>

\* tabs.query({active: true, currentWindow: true}): [] when it throws
ActiveTabs(queryFailed) ==
    IF queryFailed \/ activeTab = NoTab THEN <<>>
    ELSE <<[id |-> activeTab, url |-> tabUrl[activeTab]]>>

BeforeNavigateResume(h, queryFailed) ==
    /\ h \in navHandlers
    /\ navHandlers' = navHandlers \ {h}
    /\ LET activeTabs == ActiveTabs(queryFailed)
           activeTabId == IF activeTabs = <<>> THEN NoTab ELSE activeTabs[1].id
           activeTabUrl == IF activeTabs = <<>> THEN NoUrl ELSE activeTabs[1].url
           isNavigationTabActive == activeTabId = h.tabId /\ Len(activeTabs) > 0
           matchedIntention == lookupIntention(h.targetUrl, intentionIndex)
           ev == [NoEvent EXCEPT !.ev = "decision", !.tabId = h.tabId,
                                 !.frameId = h.frameId,
                                 !.targetUrl = h.targetUrl, !.sourceUrl = h.sourceUrl,
                                 !.queryFailed = queryFailed,
                                 !.activeTabId = activeTabId,
                                 !.activeTabUrl = activeTabUrl]
       IN
       IF \/ Rule1(h.sourceUrl, h.targetUrl)
          \/ Rule2(h.sourceUrl)
          \/ Rule3(isNavigationTabActive, activeTabUrl, h.targetUrl)
          \/ matchedIntention = NoIntention
       THEN /\ last' = ev
            /\ UNCHANGED <<mapVars, tabReq>>
       ELSE LET intentionScopeId == intentionToIntentionScopeId(matchedIntention)
                redirectUrl == IntentionPageFor(h.targetUrl, matchedIntention.id)
            IN
            /\ intentionScopePerTabId' =
                  [intentionScopePerTabId EXCEPT ![h.tabId] = intentionScopeId]
            /\ lastActiveByScope' =
                  updateIntentionScopeActivity(lastActiveByScope, intentionScopeId)
            /\ tabsUpdate(h.tabId, redirectUrl)
            /\ last' = [ev EXCEPT !.scope = intentionScopeId, !.redirect = redirectUrl]
            /\ UNCHANGED tabUrlMap
    /\ UNCHANGED <<tabState, tabUrl, tabNav, tabAudible, reflected, activeTab, stored,
                   now, phase,
                   focusListeners, configVars, checks, storageHandlers>>


(***************************************************************************)
(* Heartbeat: idle.onStateChanged, the e2e runtime message, inactivityCheck*)
(***************************************************************************)
IdleStates == {"idle", "active"}

MessageTypes == {"e2e:forceInactivityCheck", "other"}

\* inactivityCheck(), up to its await of tabs.query
inactivityCheck(origin) ==
    IF phase = "running" /\ settingsCache.inactivityMode # "off"
    THEN /\ origin \notin checks
         /\ Cardinality(checks) < MaxChecks
         /\ checks' = checks \cup {origin}
    ELSE UNCHANGED checks

\* idle.onStateChanged listener
IdleStateChanged(newState) ==
    /\ IF newState # "idle" THEN UNCHANGED checks ELSE inactivityCheck("idle")
    /\ last' = NoEvent
    /\ UNCHANGED <<browserVars, phase, focusListeners, mapVars, configVars, navHandlers,
                   storageHandlers>>

\* runtime.onMessage listener
RuntimeMessage(type) ==
    /\ IF type # "e2e:forceInactivityCheck" THEN UNCHANGED checks
       ELSE inactivityCheck("message")
    /\ last' = NoEvent
    /\ UNCHANGED <<browserVars, phase, focusListeners, mapVars, configVars, navHandlers,
                   storageHandlers>>

\* inactivityCheck(), after tabs.query settled; a rejection ends it in its catch.
InactivityCheckResume(origin, queryFailed) ==
    /\ origin \in checks
    /\ checks' = checks \ {origin}
    /\ LET activeTabs == ActiveTabs(queryFailed)
           ev == [NoEvent EXCEPT !.ev = "inactivityCheck", !.origin = origin,
                                 !.queryFailed = queryFailed]
       IN
       IF activeTabs = <<>>
       THEN /\ last' = ev
            /\ tabReq' = tabReq
       ELSE
       LET tabId == activeTabs[1].id
           cachedUrl == tabUrlMap[tabId]
           url == IF cachedUrl # NoUrl THEN cachedUrl ELSE activeTabs[1].url
           intentionScopeId ==
               IF url = NoUrl THEN NoScope
               ELSE IF intentionScopePerTabId[tabId] # NoScope
                    THEN intentionScopePerTabId[tabId]
                    ELSE lookupIntentionScopeId(url)
           ev2 == [ev EXCEPT !.tabId = tabId, !.activeTabId = tabId,
                             !.activeTabUrl = activeTabs[1].url, !.sourceUrl = url,
                             !.scope = intentionScopeId]
       IN
       IF intentionScopeId # NoScope
          /\ shouldTriggerInactivity(intentionScopeId, settingsCache.inactivityMode,
                                     settingsCache.inactivityTimeoutMs)
       THEN /\ Len(url.ids) < MaxNesting
            /\ tabsUpdate(tabId, IntentionPageFor(url, intentionScopeId))
            /\ last' = [ev2 EXCEPT !.lastActive = lastActiveByScope[intentionScopeId],
                                   !.redirect = IntentionPageFor(url, intentionScopeId)]
       ELSE /\ last' = [ev2 EXCEPT !.lastActive =
                            IF intentionScopeId = NoScope THEN 0
                            ELSE lastActiveByScope[intentionScopeId]]
            /\ tabReq' = tabReq
    /\ UNCHANGED <<tabState, tabUrl, tabNav, tabAudible, reflected, activeTab, stored,
                   now, phase,
                   focusListeners, mapVars, configVars, navHandlers, storageHandlers>>

(***************************************************************************)
(* Storage: the settings page writes one key, the sync backend delivers    *)
(* the changes of another device as one event that may carry several keys; *)
(* storage.onChanged rebuilds the index, then refreshes the settings       *)
(* snapshot, each after its own read of storage.                           *)
(***************************************************************************)
SettingsKeys == {"inactivityMode"}

\* storage.onChanged listener, up to its first await of storage.get.  A handler
\* is suspended at the read of its first block ("intentions") or of its second
\* ("settings"); before is history: the index and the settings snapshot in
\* effect when the event arrived.
onChanged(changes) ==
    IF phase = "running" /\ changes \cap ({"intentions"} \cup SettingsKeys) # {}
    THEN LET h == [changes |-> changes,
                   at |-> IF "intentions" \in changes THEN "intentions" ELSE "settings",
                   before |-> <<intentionIndex, settingsCache>>]
         IN
         /\ Cardinality(storageHandlers) < MaxStorageHandlers
         /\ storageHandlers' = storageHandlers \cup {h}
    ELSE UNCHANGED storageHandlers

\* storage.set({key: value}) of the settings page
StorageSet(key, value) ==
    /\ stored[key] # value
    /\ stored' = [stored EXCEPT ![key] = value]
    /\ onChanged({key})
    /\ last' = NoEvent
    /\ UNCHANGED <<tabState, tabUrl, tabNav, tabReq, tabAudible, reflected, activeTab,
                   now, phase,
                   focusListeners, mapVars, configVars, navHandlers, checks>>

\* The sync backend applies the changes made on another device: one change
\* event for the keys whose value changed.
StorageSync(value) ==
    /\ value # stored
    /\ stored' = value
    /\ onChanged({key \in DOMAIN stored : stored[key] # value[key]})
    /\ last' = NoEvent
    /\ UNCHANGED <<tabState, tabUrl, tabNav, tabReq, tabAudible, reflected, activeTab,
                   now, phase,
                   focusListeners, mapVars, configVars, navHandlers, checks>>

\* storage.onChanged listener, after a storage.get settled; a rejection ends the
\* handler in its catch, with what it installed before that read left in place.
StorageChangedResume(h, getFailed) ==
    /\ h \in storageHandlers
    /\ IF getFailed
       THEN /\ storageHandlers' = storageHandlers \ {h}
            /\ UNCHANGED configVars
       ELSE LET got == storageGet IN
            IF h.at = "intentions"
            THEN /\ intentionIndex' = createIntentionIndex(mapNullsParse(got.intentions))
                 /\ UNCHANGED settingsCache
                 /\ storageHandlers' =
                      (storageHandlers \ {h}) \cup
                      (IF h.changes \cap SettingsKeys # {}
                       THEN {[h EXCEPT !.at = "settings"]} ELSE {})
            ELSE /\ settingsCache' =
                      [inactivityMode |-> got.inactivityMode,
                       inactivityTimeoutMs |-> settingsCache.inactivityTimeoutMs]
                 /\ UNCHANGED intentionIndex
                 /\ storageHandlers' = storageHandlers \ {h}
    /\ last' = [NoEvent EXCEPT !.ev = "storageChanged", !.origin = h.at,
                               !.queryFailed = getFailed]
    /\ UNCHANGED <<browserVars, phase, focusListeners, mapVars, navHandlers, checks>>

\* Time passes.
Tick ==
    /\ now < 1 + MaxTicks * TickMs
    /\ now' = now + TickMs
    /\ last' = NoEvent
    /\ UNCHANGED <<tabState, tabUrl, tabNav, tabReq, tabAudible, reflected, activeTab,
                   stored, phase,
                   focusListeners, mapVars, configVars, navHandlers, checks,
                   storageHandlers>>

(***************************************************************************)
(* SpecNav: the navigation decision engine.  Inactivity re-triggering is   *)
(* switched off in storage and stays off; time does not advance.           *)
(***************************************************************************)
InitNav == Init /\ stored.inactivityMode = "off"

NextNav ==
    \/ LoadOk
    \/ LoadFail
    \/ \E t \in Tabs : \E u \in CreatedUrls : TabCreated(t, u)
    \/ \E t \in Tabs : TabRemoved(t)
    \/ \E t \in Tabs : TabActivated(t)
    \/ WindowBlurred
    \/ \E t \in NavTabs : \E frameId \in {0, 1} : \E u \in NavUrls : Navigate(t, frameId, u)
    \/ \E t \in Tabs : RedirectNavigate(t)
    \/ \E t \in Tabs : ReflectionComplete(t)
    \/ \E t \in Tabs : \E frameId \in {0, 1} : \E u \in NavUrls \cup {tabNav[t]} :
          Committed(t, frameId, u)
    \/ \E h \in navHandlers : \E queryFailed \in BOOLEAN : BeforeNavigateResume(h, queryFailed)
    \/ \E value \in IntentionLists : StorageSet("intentions", value)
    \/ \E h \in storageHandlers : \E getFailed \in BOOLEAN : StorageChangedResume(h, getFailed)

SpecNav == InitNav /\ [][NextNav]_vars

(***************************************************************************)
(* Properties of the navigation decision engine, checked under SpecNav.    *)
(* A state with last.ev = "decision" is the state right after an           *)
(* onBeforeNavigate handler ran to its end; the step changes neither the   *)
(* focused tab, the tabs' URLs nor the index, so these are what the        *)
(* handler saw.                                                            *)
(***************************************************************************)
Decided == last.ev = "decision"

FocusedUrl == IF activeTab = NoTab THEN NoUrl ELSE tabUrl[activeTab]

\* The cached source URL of the decided event shares the target's domain.
SourceSharesDomain ==
    last.sourceUrl # NoUrl /\ domainEquals(last.sourceUrl, last.targetUrl)

\* The cached source URL of the decided event is an intention page URL.
SourceIsIntentionPage ==
    last.sourceUrl # NoUrl /\ startsWithIntentionPageUrl(last.sourceUrl)

\* Another tab than the navigating one is focused, on the target's domain.
OtherFocusedTabSharesDomain ==
    /\ activeTab # NoTab
    /\ activeTab # last.tabId
    /\ FocusedUrl # NoUrl
    /\ domainEquals(FocusedUrl, last.targetUrl)

TargetMatched == lookupIntention(last.targetUrl, intentionIndex)

\* The handler called tabs.update with the intention page for the target and
\* the matched intention, and an open tab has accepted it.
RedirectIssued ==
    /\ last.redirect # NoUrl
    /\ startsWithIntentionPageUrl(last.redirect)
    /\ TargetOf(last.redirect) = last.targetUrl
    /\ IntentionIdOf(last.redirect) = TargetMatched.id
    /\ tabState[last.tabId] = "open" => tabReq[last.tabId] = last.redirect

CommitsTarget(t) ==
    /\ tabNav[t] # NoUrl
    /\ tabNav'[t] = NoUrl
    /\ tabState'[t] = "open"
    /\ tabUrl'[t] = tabNav[t]

\* A handler suspended at tabs.query that Rule 4 redirects if it resumes now:
\* its tab is the focused one, its source fails Rules 1 and 2, its target matches.
RedirectsIfResumed(h) ==
    /\ activeTab = h.tabId
    /\ ~(h.sourceUrl # NoUrl /\ domainEquals(h.sourceUrl, h.targetUrl))
    /\ ~(h.sourceUrl # NoUrl /\ startsWithIntentionPageUrl(h.sourceUrl))
    /\ lookupIntention(h.targetUrl, intentionIndex) # NoIntention

\* C2: while the before-navigate handler of a navigation that Rule 4 redirects
\* is suspended at its active-tab query, or its redirect is issued and not yet
\* started, the navigation to the original target does not commit in that tab.
C2_TargetNotCommittedBeforeReflection ==
    [][\A t \in Tabs :
          CommitsTarget(t) =>
             /\ ~\E h \in navHandlers :
                    h.tabId = t /\ h.targetUrl = tabNav[t] /\ RedirectsIfResumed(h)
             /\ ~(tabReq[t] # NoUrl /\ TargetOf(tabReq[t]) = tabNav[t])]_vars

C5_OtherFocusedTabAllows ==
    /\ (Decided /\ ~last.queryFailed /\ OtherFocusedTabSharesDomain)
          => (last.redirect = NoUrl /\ last.activeTabId = activeTab)
    /\ (/\ Decided
        /\ ~last.queryFailed
        /\ activeTab = last.tabId
        /\ ~SourceSharesDomain
        /\ ~SourceIsIntentionPage
        /\ TargetMatched # NoIntention)
          => RedirectIssued

\* C5 witness: tab 1 is in the background and navigates to a facebook page
\* while the focused tab 2 is on facebook; only Rule 3 can allow it.
C5_Witness ==
    /\ Decided
    /\ ~last.queryFailed
    /\ OtherFocusedTabSharesDomain
    /\ ~SourceSharesDomain
    /\ ~SourceIsIntentionPage
    /\ TargetMatched # NoIntention
    /\ last.redirect = NoUrl

\* C6: a step that puts a redirect into a tab is the end of a top-level
\* before-navigate handler for which Rules 1, 2 and 3 fail and the lookup
\* matches; a handler that ends without a redirect, and a sub-frame event,
\* leave the redirect requests, the tab-to-scope map and the activity times
\* unchanged, and a sub-frame event suspends no handler.
C6_RedirectOnlyByRule4 ==
    [][/\ (\E t \in Tabs : tabReq'[t] # tabReq[t] /\ tabReq'[t] # NoUrl)
            => /\ last'.ev = "decision"
               /\ last'.frameId = 0
               /\ last'.redirect # NoUrl
       /\ (last'.ev = "decision" /\ last'.redirect # NoUrl)
            => /\ ~(last'.sourceUrl # NoUrl
                      /\ domainEquals(last'.sourceUrl, last'.targetUrl))
               /\ ~(last'.sourceUrl # NoUrl
                      /\ startsWithIntentionPageUrl(last'.sourceUrl))
               /\ ~(/\ ~last'.queryFailed
                    /\ activeTab # NoTab
                    /\ activeTab # last'.tabId
                    /\ tabUrl[activeTab] # NoUrl
                    /\ domainEquals(tabUrl[activeTab], last'.targetUrl))
               /\ lookupIntention(last'.targetUrl, intentionIndex) # NoIntention
       /\ (last'.ev = "decision" /\ last'.redirect = NoUrl)
            => UNCHANGED <<tabReq, intentionScopePerTabId, lastActiveByScope>>
       /\ last'.ev = "subframe"
            => UNCHANGED <<tabReq, intentionScopePerTabId, lastActiveByScope,
                           navHandlers>>]_vars

\* C6 witness: a sub-frame of the focused tab, not on facebook, navigates to a
\* facebook page that an intention matches, and nothing is requested of the tab.
C6_Witness ==
    /\ last.ev = "subframe"
    /\ last.frameId # 0
    /\ activeTab = last.tabId
    /\ tabUrlMap[last.tabId] = Google
    /\ TargetMatched # NoIntention
    /\ tabReq[last.tabId] = NoUrl
    /\ navHandlers = {}

\* C7: when the active-tab query throws, the handler sees no active tab, and a
\* matching target with Rules 1 and 2 failing is redirected.
C7_QueryFailureRedirects ==
    (Decided /\ last.queryFailed)
    => /\ last.activeTabId = NoTab
       /\ last.activeTabUrl = NoUrl
       /\ (~SourceSharesDomain /\ ~SourceIsIntentionPage /\ TargetMatched # NoIntention)
             => RedirectIssued

\* C7 witness: the query throws while another tab, on the target's domain, is
\* focused (Rule 3 would have allowed): the navigation is redirected.
C7_Witness ==
    /\ Decided
    /\ last.queryFailed
    /\ OtherFocusedTabSharesDomain
    /\ RedirectIssued
    /\ tabReq[last.tabId] = last.redirect

(***************************************************************************)
(* SpecInactivity: inactivity re-triggering.  One intention is stored and  *)
(* stays stored; the mode is any of the three, the timeout is the default  *)
(* of 30 minutes, time advances, the first tab navigates and plays audio,  *)
(* the second tab is a new-tab page to switch to, and the heartbeat runs.  *)
(***************************************************************************)
InitInactivity ==
    /\ Init
    /\ stored.intentions = <<IntentionA>>
    /\ tabUrl[1] = AboutBlank

NextInactivity ==
    \/ LoadOk
    \/ \E t \in Tabs : TabCreated(t, AboutBlank)
    \/ \E t \in Tabs : TabActivated(t)
    \/ \E t \in AudioTabs : \E audible \in BOOLEAN : TabUpdated(t, audible)
    \/ \E t \in NavTabs : Navigate(t, 0, FacebookGroup)
    \/ \E t \in Tabs : RedirectNavigate(t)
    \/ \E t \in Tabs : ReflectionComplete(t)
    \/ \E t \in Tabs : Committed(t, 0, tabNav[t])
    \/ \E h \in navHandlers : BeforeNavigateResume(h, FALSE)
    \/ \E newState \in IdleStates : IdleStateChanged(newState)
    \/ \E type \in MessageTypes : RuntimeMessage(type)
    \/ \E origin \in checks : \E queryFailed \in BOOLEAN :
          InactivityCheckResume(origin, queryFailed)
    \/ Tick

SpecInactivity == InitInactivity /\ [][NextInactivity]_vars

(***************************************************************************)
(* Properties of inactivity re-triggering, checked under SpecInactivity.   *)
(* A state with last.ev = "activated" is the state right after the         *)
(* tabs.onActivated listener ran for the tab that gained focus, one with   *)
(* last.ev = "inactivityCheck" the state right after inactivityCheck()     *)
(* ran to its end; neither step changes the cache, the index, the settings *)
(* snapshot or the clock.                                                  *)
(***************************************************************************)
Activated == last.ev = "activated"

\* The scope the cached URL of the tab that gained focus resolves to.
FocusScope ==
    IF tabUrlMap[last.tabId] = NoUrl THEN NoScope
    ELSE lookupIntentionScopeId(tabUrlMap[last.tabId])

BelongsToScope(t, intentionScopeId) ==
    /\ tabState[t] = "open"
    /\ \/ intentionScopePerTabId[t] = intentionScopeId
       \/ /\ tabUrlMap[t] # NoUrl
          /\ lookupIntentionScopeId(tabUrlMap[t]) = intentionScopeId

HeartbeatRan == last.ev = "inactivityCheck"

\* The URL the heartbeat takes for the focused tab: the cached one, else tab.url.
HeartbeatUrl ==
    IF activeTab = NoTab THEN NoUrl
    ELSE IF tabUrlMap[activeTab] # NoUrl THEN tabUrlMap[activeTab]
    ELSE tabUrl[activeTab]

\* The scope the focused tab belongs to: the tab-to-scope map's, else the one
\* its URL resolves to.
HeartbeatScope ==
    IF HeartbeatUrl = NoUrl THEN NoScope
    ELSE IF intentionScopePerTabId[activeTab] # NoScope
         THEN intentionScopePerTabId[activeTab]
         ELSE lookupIntentionScopeId(HeartbeatUrl)

TimeoutValues == {0, 1, minutesToMs(30), minutesToMs(60)}

\* A step puts a redirect request into some tab.
RedirectRequested == \E t \in Tabs : tabReq'[t] # tabReq[t] /\ tabReq'[t] # NoUrl

\* C11: with the mode "off", shouldTriggerInactivity is false for every scope
\* and every timeout value in every reachable activity history, and a step
\* that requests a redirect is the end of a before-navigate handler, never a
\* focus event, an idle signal or a test-hook message; and, in every mode, a
\* before-navigate handler redirects exactly when Rules 1, 2 and 3 fail and
\* the lookup matches.
C11_ModeOffNeverRetriggers ==
    [][/\ \A id \in ScopeIds : \A timeoutMs \in TimeoutValues :
             ~shouldTriggerInactivity(id, "off", timeoutMs)
       /\ (settingsCache.inactivityMode = "off" /\ RedirectRequested)
             => last'.ev = "decision"
       /\ (settingsCache.inactivityMode = "off"
             /\ last'.ev \in {"activated", "inactivityCheck"})
             => last'.redirect = NoUrl
       /\ last'.ev = "decision"
             => (last'.redirect # NoUrl
                   <=> /\ ~(last'.sourceUrl # NoUrl
                              /\ domainEquals(last'.sourceUrl, last'.targetUrl))
                       /\ ~(last'.sourceUrl # NoUrl
                              /\ startsWithIntentionPageUrl(last'.sourceUrl))
                       /\ ~(/\ ~last'.queryFailed
                            /\ activeTab # NoTab
                            /\ activeTab # last'.tabId
                            /\ tabUrl[activeTab] # NoUrl
                            /\ domainEquals(tabUrl[activeTab], last'.targetUrl))
                       /\ lookupIntention(last'.targetUrl, intentionIndex)
                             # NoIntention)]_vars

\* C11 witness: with the mode "off", a tab on the facebook page gains focus
\* when the scope's last activity is older than the timeout, and no redirect
\* is requested.
C11_Witness ==
    /\ Activated
    /\ settingsCache.inactivityMode = "off"
    /\ last.scope = "a"
    /\ last.lastActive # 0
    /\ now - last.lastActive > settingsCache.inactivityTimeoutMs
    /\ last.redirect = NoUrl
    /\ tabReq[last.tabId] = NoUrl

\* The URL a redirect of the last handler run stands in for: the navigation's
\* target for a before-navigate handler, the URL the tab is on otherwise.
OriginalTarget ==
    IF last.ev = "decision" THEN last.targetUrl ELSE tabUrl[last.tabId]

\* C12: every redirect that a before-navigate handler, the focus listener or
\* the heartbeat issues goes to the intention page, with the original target
\* as its target parameter and the id of the intention that matches that
\* target as its identifier parameter, and the target parameter is not itself
\* an intention page URL.
C12_RedirectContract ==
    (last.ev \in {"decision", "activated", "inactivityCheck"} /\ last.redirect # NoUrl)
    => /\ startsWithIntentionPageUrl(last.redirect)
       /\ TargetOf(last.redirect) = OriginalTarget
       /\ ~startsWithIntentionPageUrl(TargetOf(last.redirect))
       /\ lookupIntention(OriginalTarget, intentionIndex) # NoIntention
       /\ IntentionIdOf(last.redirect) = lookupIntention(OriginalTarget, intentionIndex).id


(***************************************************************************)
(* The matcher and the index as pure functions: the initial states draw a  *)
(* scope URL and a target URL, or a list of stored intentions and a target *)
(* URL, and one step applies matchesIntentionScopeIgnoringDomain or        *)
(* createIntentionIndex and lookupIntention to them.                       *)
(***************************************************************************)
\* Public suffixes and subdomains of the URLs; "se" and "de" are country
\* codes, "sv" and "fr" are language codes.
MatchSuffixes == {"com", "se", "de", "org", "co.uk"}

MatchSubdomains == {"", "sv", "fr", "cdn"}

GroupsPath == <<"/", "g", "r", "o", "u", "p", "s">>

EnEventsPath == <<"/", "e", "n", "/", "e", "v", "e", "n", "t", "s">>

EventsPath == <<"/", "e", "v", "e", "n", "t", "s">>

SvGroupsPath == <<"/", "s", "v">> \o GroupsPath

SvEventsPath == <<"/", "s", "v">> \o EventsPath

\* '/events/sv/groups': a language token in the second segment.
EventsSvGroupsPath == EventsPath \o SvGroupsPath

\* Paths an intention is typed with: '', '/', '/groups', '/en/events'.
ScopePaths == {<<>>, <<"/">>, GroupsPath, EnEventsPath}

\* Strings appended to a scope path after a "/": '', '123', '1/2', '.', '..'.
Extensions == {<<>>, <<"1", "2", "3">>, <<"1", "/", "2">>, <<".">>, <<".", ".">>}

\* The extensions with a ".." path segment.
DotDotExtensions == {<<".", ".">>}

TargetPaths ==
    ScopePaths
    \cup {p \o <<"/">> \o e : p \in ScopePaths, e \in Extensions}
    \cup {EventsPath, SvGroupsPath, SvEventsPath, EventsSvGroupsPath}

\* The URLs a scope is built from: https://[sub.]facebook.<suffix><path>.
ScopeUrls ==
    {Web(FALSE, sub, "facebook", suf, path) :
        sub \in MatchSubdomains, suf \in MatchSuffixes, path \in ScopePaths}

\* The URLs that are matched: https://[www.][sub.]facebook.<suffix><path>.
TargetUrls ==
    {Web(www, sub, "facebook", suf, path) :
        www \in BOOLEAN, sub \in MatchSubdomains, suf \in MatchSuffixes,
        path \in TargetPaths}

\* Stored intentions, as typed: "facebook.com", "facebook.com/groups",
\* "facebook.se", "gmail.com".
Short == [id |-> "short", url |-> [Web(FALSE, "", "facebook", "com", <<>>)
                                     EXCEPT !.scheme = FALSE]]

Long == [id |-> "long", url |-> [Web(FALSE, "", "facebook", "com", GroupsPath)
                                   EXCEPT !.scheme = FALSE]]

FacebookSe == [id |-> "se", url |-> [Web(FALSE, "", "facebook", "se", <<>>)
                                       EXCEPT !.scheme = FALSE]]

Gmail == [id |-> "gmail", url |-> [Web(FALSE, "", "gmail", "com", <<>>)
                                     EXCEPT !.scheme = FALSE]]

Reddit == [id |-> "reddit", url |-> [Web(FALSE, "", "reddit", "com", <<>>)
                                       EXCEPT !.scheme = FALSE]]

\* An intention whose URL does not parse: "localhost".
Localhost == [id |-> "localhost", url |-> [NoUrl EXCEPT !.kind = "private",
                                                        !.name = "localhost"]]

LookupLists ==
    {<<>>, <<Short>>, <<Long>>, <<Short, Long>>, <<Long, Short>>, <<FacebookSe>>,
     <<Gmail>>, <<FacebookSe, Short>>, <<Short, Reddit>>,
     <<Localhost>>, <<Localhost, Short>>, <<Short, Localhost, Long>>}

\* The URLs that are looked up: the facebook targets without a subdomain, the
\* typed intention URLs, https://mail.gmail.com/x, https://gmail.com/x, and
\* https://[www.]reddit.com<path>.
LookupUrls ==
    {u \in TargetUrls : u.sub = ""}
    \cup {Short.url, Long.url, FacebookSe.url, Gmail.url, Localhost.url}
    \cup {Web(FALSE, sub, "gmail", "com", <<"/", "x">>) : sub \in {"", "mail"}}
    \cup {Web(www, "", "reddit", "com", path) : www \in BOOLEAN, path \in ScopePaths}

\* Paths with escape sequences: '/%41', '/%2541', '/%25', '/groups/%2541'.
EscapedPaths ==
    {<<"/", "%", "4", "1">>, <<"/", "%", "2", "5", "4", "1">>, <<"/", "%", "2", "5">>,
     GroupsPath \o <<"/", "%", "2", "5", "4", "1">>}

\* The URLs that are normalized.
NormalizedUrls ==
    {u \in TargetUrls : u.suf = "com"}
    \cup {Web(www, "", "facebook", "com", path) : www \in BOOLEAN, path \in EscapedPaths}

InitMatch ==
    /\ tabState = [t \in Tabs |-> "new"]
    /\ tabUrl = [t \in Tabs |-> NoUrl]
    /\ tabNav = [t \in Tabs |-> NoUrl]
    /\ tabReq = [t \in Tabs |-> NoUrl]
    /\ tabAudible = [t \in Tabs |-> FALSE]
    /\ activeTab = NoTab
    /\ now = 1
    /\ phase = "loading"
    /\ focusListeners = FALSE
    /\ tabUrlMap = [t \in Tabs |-> NoUrl]
    /\ lastActiveByScope = [s \in ScopeIds |-> 0]
    /\ intentionScopePerTabId = [t \in Tabs |-> NoScope]
    /\ intentionIndex = createIntentionIndex(<<>>)
    /\ settingsCache = [inactivityMode |-> "off", inactivityTimeoutMs |-> minutesToMs(30)]
    /\ navHandlers = {}
    /\ checks = {}
    /\ storageHandlers = {}
    /\ reflected = {}
    /\ \/ /\ stored = [intentions |-> <<>>, inactivityMode |-> "off"]
          /\ \E s \in ScopeUrls : \E t \in TargetUrls :
                last = [NoEvent EXCEPT !.ev = "matchInput", !.scopeUrl = s, !.targetUrl = t]
       \/ /\ \E l \in LookupLists : stored = [intentions |-> l, inactivityMode |-> "off"]
          /\ \E t \in LookupUrls :
                last = [NoEvent EXCEPT !.ev = "lookupInput", !.targetUrl = t]
       \/ /\ stored = [intentions |-> <<>>, inactivityMode |-> "off"]
          /\ \E u \in NormalizedUrls :
                last = [NoEvent EXCEPT !.ev = "normalizeInput", !.targetUrl = u]

\* matchesIntentionScopeIgnoringDomain(targetUrl, parseUrlToScope(scopeUrl))
Match ==
    /\ last.ev = "matchInput"
    /\ last' = [last EXCEPT
                  !.ev = "match",
                  !.matched = matchesIntentionScopeIgnoringDomain(
                                  last.targetUrl, parseUrlToScope(last.scopeUrl))]
    /\ UNCHANGED <<browserVars, mapVars, configVars, phase, focusListeners,
                   navHandlers, checks, storageHandlers>>

\* lookupIntention(targetUrl, createIntentionIndex(mapNulls(parseIntention, intentions)))
Lookup ==
    /\ last.ev = "lookupInput"
    /\ intentionIndex' = createIntentionIndex(mapNullsParse(stored.intentions))
    /\ last' = [last EXCEPT
                  !.ev = "lookup",
                  !.scope = intentionToIntentionScopeId(
                                lookupIntention(last.targetUrl, intentionIndex'))]
    /\ UNCHANGED <<browserVars, mapVars, settingsCache, phase, focusListeners,
                   navHandlers, checks, storageHandlers>>

\* The URL string 'https://' + normalized.
HttpsOf(normalized) ==
    Web(FALSE, normalized.sub, normalized.name, normalized.suf, normalized.path)

\* normalized1 = normalizeUrl(new URL(url));
\* normalized2 = normalizeUrl(new URL(`https://${normalized1}`))
Normalize ==
    /\ last.ev = "normalizeInput"
    /\ LET normalized1 == normalizeUrl(parseUrlString(last.targetUrl))
           normalized2 == normalizeUrl(parseUrlString(HttpsOf(normalized1)))
       IN  last' = [last EXCEPT !.ev = "normalize",
                                !.normalized = normalized1,
                                !.renormalized = normalized2]
    /\ UNCHANGED <<browserVars, mapVars, configVars, phase, focusListeners,
                   navHandlers, checks, storageHandlers>>

NextMatch ==
    \/ Match
    \/ Lookup
    \/ Normalize

SpecMatch == InitMatch /\ [][NextMatch]_vars

(***************************************************************************)
(* Claims about the matcher and the index (SpecMatch).                     *)
(***************************************************************************)
Matched == last.ev = "match"

LookedUp == last.ev = "lookup"

\* https://mail.gmail.com/x
MailGmailX == Web(FALSE, "mail", "gmail", "com", <<"/", "x">>)

\* C13: with the single intention "gmail.com" stored, the lookup of
\* https://mail.gmail.com/x returns that intention.
C13_GmailSubdomainBlocked ==
    (LookedUp /\ stored.intentions = <<Gmail>> /\ last.targetUrl = MailGmailX)
    => last.scope = Gmail.id

\* The positions of the stored list whose intention is in the target's bucket
\* and is accepted by the matcher.
Accepting ==
    {i \in 1..Len(stored.intentions) :
        /\ ScopeOf(stored.intentions[i]).domain = parseUrlToScope(last.targetUrl).domain
        /\ matchesIntentionScopeIgnoringDomain(last.targetUrl,
                                               ScopeOf(stored.intentions[i]))}

\* https://www.facebook.com/groups/123
FacebookGroups123 ==
    Web(TRUE, "", "facebook", "com", GroupsPath \o <<"/", "1", "2", "3">>)

\* The target paths at or below /groups.
UnderGroups ==
    {GroupsPath} \cup {GroupsPath \o <<"/">> \o e : e \in Extensions \ DotDotExtensions}

\* C14: a lookup returns null when no stored intention of the target's
\* registrable domain is accepted by the matcher, and otherwise the accepted
\* one with the greatest urlLength (the earliest stored among equals); with
\* "short" and "long" stored in either order, https://www.facebook.com/groups/123
\* resolves to "long" and a facebook.com target outside /groups to "short".
C14_SpecificityPrecedence ==
    LookedUp =>
       /\ IF Accepting = {} THEN last.scope = NoScope
          ELSE \E i \in Accepting :
                  /\ last.scope = stored.intentions[i].id
                  /\ \A j \in Accepting :
                        LET li == ScopeOf(stored.intentions[i]).urlLength
                            lj == ScopeOf(stored.intentions[j]).urlLength
                        IN  lj < li \/ (lj = li /\ i <= j)
       /\ (stored.intentions \in {<<Short, Long>>, <<Long, Short>>}
             /\ last.targetUrl.name = "facebook" /\ last.targetUrl.suf = "com"
             /\ last.targetUrl.scheme)
          => IF last.targetUrl.path \in UnderGroups
             THEN last.scope = "long"
             ELSE last.targetUrl.path # SvGroupsPath => last.scope = "short"

\* C14 witness: "short" stored before "long", and the lookup of
\* https://www.facebook.com/groups/123 returned "long".
C14_Witness ==
    /\ LookedUp
    /\ stored.intentions = <<Short, Long>>
    /\ last.targetUrl = FacebookGroups123
    /\ last.scope = "long"

\* The scope URL and the target URL of a matcher run have no subdomain, and
\* the scope URL has no path: the subdomain and path steps accept.
OnlySuffixDiffers ==
    /\ last.scopeUrl.sub = "" /\ last.targetUrl.sub = ""
    /\ last.scopeUrl.path = <<>>

\* C15: the matcher accepts only if the scope's suffix is a language suffix,
\* or the target's suffix is one, or the two suffixes are equal; and for a
\* scope and a target that differ in nothing but the suffix it accepts exactly
\* then (a facebook.se scope accepts .com, .de and .se, a facebook.com scope
\* accepts .com and .se and rejects .org).
C15_SuffixStep ==
    Matched =>
       LET suffixAccepted ==
              \/ isLanguageSuffix(last.scopeUrl.suf)
              \/ isLanguageSuffix(last.targetUrl.suf)
              \/ last.targetUrl.suf = last.scopeUrl.suf
       IN  /\ last.matched => suffixAccepted
           /\ OnlySuffixDiffers => (last.matched <=> suffixAccepted)
           /\ (OnlySuffixDiffers /\ last.scopeUrl.suf = "se"
                 /\ last.targetUrl.suf \in {"com", "de", "se"}) => last.matched
           /\ (OnlySuffixDiffers /\ last.scopeUrl.suf = "com")
                 => (last.matched <=> last.targetUrl.suf \in {"com", "se", "de"})

\* C15 witness: the scope of https://facebook.com accepted https://facebook.se.
C15_Witness ==
    /\ Matched
    /\ OnlySuffixDiffers
    /\ last.scopeUrl.suf = "com"
    /\ last.targetUrl.suf = "se"
    /\ last.matched

\* C16: with only the intention "facebook.se" stored, the lookups of
\* https://facebook.com and https://facebook.de return it.
C16_CrossSuffixLookup ==
    (/\ LookedUp
     /\ stored.intentions = <<FacebookSe>>
     /\ last.targetUrl \in {Web(FALSE, "", "facebook", suf, <<>>) : suf \in {"com", "de"}})
    => last.scope = FacebookSe.id

\* The scope URL and the target URL of a matcher run have the same suffix and
\* the same path.
OnlySubdomainDiffers ==
    /\ last.scopeUrl.suf = last.targetUrl.suf
    /\ last.scopeUrl.path = last.targetUrl.path

\* C17: a scope built from a URL without subdomain accepts the target with the
\* same suffix and path and a www prefix, no subdomain, or the subdomain sv or
\* fr, and rejects the one with the subdomain cdn.
C17_SubdomainTolerance ==
    (Matched /\ OnlySubdomainDiffers /\ last.scopeUrl.sub = "")
    => (last.matched <=> last.targetUrl.sub \in {"", "sv", "fr"})

\* C17 witness: the scope of https://facebook.co.uk/en/events accepted
\* https://www.facebook.co.uk/en/events.
C17_Witness ==
    /\ Matched
    /\ last.scopeUrl = Web(FALSE, "", "facebook", "co.uk", EnEventsPath)
    /\ last.targetUrl = Web(TRUE, "", "facebook", "co.uk", EnEventsPath)
    /\ last.matched

\* C18: a scope with the subdomain sv or fr accepts the target with the same
\* suffix and path and no subdomain or the subdomain sv or fr, and rejects the
\* one with the subdomain cdn; a scope with the subdomain cdn accepts exactly
\* the targets with the subdomain cdn.
C18_SubdomainOfScope ==
    (Matched /\ OnlySubdomainDiffers)
    => /\ last.scopeUrl.sub \in {"sv", "fr"}
             => (last.matched <=> last.targetUrl.sub \in {"", "sv", "fr"})
       /\ last.scopeUrl.sub = "cdn"
             => (last.matched <=> last.targetUrl.sub = "cdn")

\* C18 witness: the scope of https://sv.facebook.com/groups accepted
\* https://fr.facebook.com/groups.
C18_Witness ==
    /\ Matched
    /\ last.scopeUrl = Web(FALSE, "sv", "facebook", "com", GroupsPath)
    /\ last.targetUrl = Web(FALSE, "fr", "facebook", "com", GroupsPath)
    /\ last.matched

\* The scope URL and the target URL of a matcher run have the same host.
SameHost ==
    /\ last.scopeUrl.sub = last.targetUrl.sub
    /\ last.scopeUrl.suf = last.targetUrl.suf

\* The target path of a matcher run is the scope path, a "/" and an extension
\* of the set.
ExtendedBy(extensions) ==
    \E e \in extensions : last.targetUrl.path = last.scopeUrl.path \o <<"/">> \o e

SameScope(url1, url2) ==
    /\ parseUrlToScope(url1) # NoScopeRecord
    /\ [parseUrlToScope(url1) EXCEPT !.originalUrl = NoUrl]
          = [parseUrlToScope(url2) EXCEPT !.originalUrl = NoUrl]

\* C20: the matcher accepts a URL for the scope that is parsed from it, and
\* the lookup of a URL returns an intention whenever an intention with the
\* URL's scope is stored.
C20_SelfMatch ==
    /\ (Matched /\ SameScope(last.targetUrl, last.scopeUrl)) => last.matched
    /\ (LookedUp /\ \E i \in 1..Len(stored.intentions) :
                       SameScope(last.targetUrl, stored.intentions[i].url))
          => last.scope # NoScope

\* C20 witness: with "short" and "long" stored, the lookup of the URL "short"
\* was typed with returned an intention.
C20_Witness ==
    /\ LookedUp
    /\ stored.intentions = <<Short, Long>>
    /\ last.targetUrl = Short.url
    /\ last.scope = "short"

\* C21: a lookup returns null or a stored intention whose scope has the
\* registrable domain of the target; with the intentions facebook.com and
\* reddit.com stored, a facebook target resolves to the facebook intention or
\* to nothing and a reddit target to the reddit intention or to nothing.
C21_Disjointness ==
    LookedUp =>
       /\ last.scope # NoScope
             => \E i \in 1..Len(stored.intentions) :
                   /\ stored.intentions[i].id = last.scope
                   /\ ScopeOf(stored.intentions[i]).domain
                         = parseUrlToScope(last.targetUrl).domain
       /\ stored.intentions = <<Short, Reddit>>
             => /\ last.targetUrl.name = "facebook" => last.scope \in {"short", NoScope}
                /\ last.targetUrl.name = "reddit" => last.scope \in {"reddit", NoScope}

\* C21 witness: with facebook.com and reddit.com stored, the lookup of
\* https://www.reddit.com returned the reddit intention.
C21_Witness ==
    /\ LookedUp
    /\ stored.intentions = <<Short, Reddit>>
    /\ last.targetUrl = Web(TRUE, "", "reddit", "com", <<>>)
    /\ last.scope = "reddit"

Normalized == last.ev = "normalize"

\* C22: the normalized form of a URL, given the scheme https:// again and
\* normalized again, is the same string.
C22_NormalizationIdempotence ==
    Normalized => last.renormalized = last.normalized


(***************************************************************************)
(* Fuzzy matching of the typed phrase (components/fuzzy-matching.ts), as   *)
(* the input listener of the intention page applies it: the initial states *)
(* draw the expected phrase, the maximum distance and the text of the      *)
(* input field; a step evaluates the two predicates for the text, or types *)
(* one more character and evaluates them again.                            *)
(***************************************************************************)
PhraseChars == {"a", "b", " "}

\* Bounds of the strings.
MaxPhraseLen == 3

MaxInputLen == 3

MaxDistances == {0, 1, 2}

StringsUpTo(n) == UNION {[1..k -> PhraseChars] : k \in 0..n}

Min(S) == CHOOSE x \in S : \A y \in S : x <= y

\* The greatest k <= n with chars[k] = c, 0 when there is none.
RECURSIVE LastIndexOf(_, _, _)
LastIndexOf(chars, c, n) ==
    IF n = 0 THEN 0
    ELSE IF chars[n] = c THEN n ELSE LastIndexOf(chars, c, n - 1)

\* The Damerau-Levenshtein distance of the first i characters of a and the
\* first j characters of b: insertion, deletion, substitution, and the
\* transposition of two characters with the characters between them edited.
RECURSIVE Distance(_, _, _, _)
Distance(a, b, i, j) ==
    IF i = 0 THEN j
    ELSE IF j = 0 THEN i
    ELSE LET k == LastIndexOf(a, b[j], i - 1)
             l == LastIndexOf(b, a[i], j - 1)
         IN  Min({Distance(a, b, i - 1, j) + 1,
                  Distance(a, b, i, j - 1) + 1,
                  Distance(a, b, i - 1, j - 1) + (IF a[i] = b[j] THEN 0 ELSE 1)}
                 \cup (IF k > 0 /\ l > 0
                       THEN {Distance(a, b, k - 1, l - 1) + (i - k - 1) + 1 + (j - l - 1)}
                       ELSE {}))

damerauLevenshtein(a, b) == Distance(a, b, Len(a), Len(b))

\* !s.trim(): the string is empty or consists of white space.
Blank(chars) == \A i \in 1..Len(chars) : chars[i] = " "

\* Mutant of fuzzyMatch: the test for blank arguments is missing.
fuzzyMatch_BlankAccepted(input, expected, maxDistance) ==
    damerauLevenshtein(input, expected) <= maxDistance

fuzzyMatch(input, expected, maxDistance) ==
    IF Blank(input) \/ Blank(expected) THEN FALSE
    ELSE damerauLevenshtein(input, expected) <= maxDistance

\* expected.slice(0, n)
Slice(chars, n) == SubSeq(chars, 1, IF n < Len(chars) THEN n ELSE Len(chars))

\* Mutant of fuzzyPartialMatch: the prefix is one character shorter.
fuzzyPartialMatch_ShortPrefix(input, expected, maxDistance) ==
    IF Blank(input) \/ Blank(expected) THEN FALSE
    ELSE damerauLevenshtein(input, Slice(expected, Len(input) - 1)) <= maxDistance

fuzzyPartialMatch(input, expected, maxDistance) ==
    IF Blank(input) \/ Blank(expected) THEN FALSE
    ELSE damerauLevenshtein(input, Slice(expected, Len(input))) <= maxDistance

InitFuzzy ==
    /\ tabState = [t \in Tabs |-> "new"]
    /\ tabUrl = [t \in Tabs |-> NoUrl]
    /\ tabNav = [t \in Tabs |-> NoUrl]
    /\ tabReq = [t \in Tabs |-> NoUrl]
    /\ tabAudible = [t \in Tabs |-> FALSE]
    /\ activeTab = NoTab
    /\ stored = [intentions |-> <<>>, inactivityMode |-> "off"]
    /\ now = 1
    /\ phase = "loading"
    /\ focusListeners = FALSE
    /\ tabUrlMap = [t \in Tabs |-> NoUrl]
    /\ lastActiveByScope = [s \in ScopeIds |-> 0]
    /\ intentionScopePerTabId = [t \in Tabs |-> NoScope]
    /\ intentionIndex = createIntentionIndex(<<>>)
    /\ settingsCache = [inactivityMode |-> "off", inactivityTimeoutMs |-> minutesToMs(30)]
    /\ navHandlers = {}
    /\ checks = {}
    /\ storageHandlers = {}
    /\ reflected = {}
    /\ \E e \in StringsUpTo(MaxPhraseLen) : \E i \in StringsUpTo(MaxInputLen) :
       \E d \in MaxDistances :
          last = [NoEvent EXCEPT !.ev = "fuzzyInput", !.expected = e, !.input = i,
                                 !.maxDistance = d]

\* The two predicates applied to a text.
Evaluated(text) ==
    [last EXCEPT !.ev = "fuzzy",
                 !.input = text,
                 !.matched = fuzzyMatch(text, last.expected, last.maxDistance),
                 !.partial = fuzzyPartialMatch(text, last.expected, last.maxDistance)]

\* fuzzyMatch and fuzzyPartialMatch applied to the text of the input field.
Evaluate ==
    /\ last.ev = "fuzzyInput"
    /\ last' = Evaluated(last.input)
    /\ UNCHANGED <<browserVars, mapVars, configVars, phase, focusListeners,
                   navHandlers, checks, storageHandlers>>

\* The user types the character c at the end of the text.
Type(c) ==
    /\ last.ev = "fuzzy"
    /\ Len(last.input) < MaxInputLen
    /\ last' = Evaluated(Append(last.input, c))
    /\ UNCHANGED <<browserVars, mapVars, configVars, phase, focusListeners,
                   navHandlers, checks, storageHandlers>>

NextFuzzy ==
    \/ Evaluate
    \/ \E c \in PhraseChars : Type(c)

SpecFuzzy == InitFuzzy /\ [][NextFuzzy]_vars

(***************************************************************************)
(* Claims about fuzzy matching (SpecFuzzy).                                *)
(***************************************************************************)
\* The step types the next character of the expected phrase.
TypesNextExpected ==
    /\ last.ev = "fuzzy" /\ last'.ev = "fuzzy"
    /\ Len(last.input) < Len(last.expected)
    /\ last'.input = Append(last.input, last.expected[Len(last.input) + 1])

\* C23: when the partial match accepts a text shorter than the expected
\* phrase, it also accepts the text followed by the next character of the
\* expected phrase, for every maximum distance.
C23_FuzzyMonotonicity ==
    [][(TypesNextExpected /\ last.partial) => last'.partial]_vars

\* C23 witness: the partial match accepted "ba" for the expected phrase "abb"
\* with maximum distance 1 (a transposition), and the user typed "b".
C23_Witness ==
    /\ last.ev = "fuzzy"
    /\ last.expected = <<"a", "b", "b">>
    /\ last.input = <<"b", "a", "b">>
    /\ last.maxDistance = 1
    /\ last.partial

FuzzyEvaluated == last.ev = "fuzzy"

\* C24 as stated: fuzzyMatch and fuzzyPartialMatch reject when the text or the
\* expected phrase is empty, and for non-empty arguments fuzzyMatch accepts
\* exactly when their distance is at most the maximum distance.
C24_EmptyRejects ==
    FuzzyEvaluated =>
       IF last.input = <<>> \/ last.expected = <<>>
       THEN ~last.matched /\ ~last.partial
       ELSE last.matched
               <=> damerauLevenshtein(last.input, last.expected) <= last.maxDistance

\* C24: fuzzyMatch and fuzzyPartialMatch reject when the text or the expected
\* phrase is empty or consists of white space only, whatever the maximum
\* distance and the distance of the two are; for all other arguments
\* fuzzyMatch accepts exactly when the distance of the text and the expected
\* phrase is at most the maximum distance.
C24_BlankRejects ==
    FuzzyEvaluated =>
       IF Blank(last.input) \/ Blank(last.expected)
       THEN ~last.matched /\ ~last.partial
       ELSE last.matched
               <=> damerauLevenshtein(last.input, last.expected) <= last.maxDistance

\* C24 witness: the empty text was rejected for the expected phrase "a" with
\* maximum distance 1, although their distance is 1.
C24_Witness ==
    /\ FuzzyEvaluated
    /\ last.input = <<>>
    /\ last.expected = <<"a">>
    /\ last.maxDistance = 1
    /\ damerauLevenshtein(last.input, last.expected) <= last.maxDistance
    /\ ~last.matched
    /\ ~last.partial

\* The URL of a raw intention is one that parses.
Parseable(raw) == raw.url.kind = "web" /\ raw.url.ids = <<>>

\* C25: the index a lookup runs on is the index of the stored intentions
\* whose URL parses, the lookup returns what it returns with the others
\* removed from the stored list, and it never returns one of the others.
C25_UnparseableSkipped ==
    LookedUp =>
       LET clean == SelectSeq(stored.intentions, Parseable) IN
       /\ intentionIndex = createIntentionIndex(clean)
       /\ last.scope = lookupIntention(last.targetUrl, createIntentionIndex(clean)).id
       /\ \A i \in 1..Len(stored.intentions) :
             ~Parseable(stored.intentions[i]) => last.scope # stored.intentions[i].id

\* C25 witness: with "short", an unparseable intention and "long" stored, the
\* lookup of https://www.facebook.com/groups/123 returned "long".
C25_Witness ==
    /\ LookedUp
    /\ stored.intentions = <<Short, Localhost, Long>>
    /\ last.targetUrl = FacebookGroups123
    /\ last.scope = "long"

(***************************************************************************)
(* SpecStorage: the configuration and its change events.  The settings     *)
(* page writes the intentions or the mode, the sync backend delivers the   *)
(* changes of another device, and a read of storage succeeds or rejects.   *)
(***************************************************************************)
StoredLists == IntentionLists \cup {<<IntentionB>>, <<IntentionA, IntentionB>>}

StoredValues == [intentions : StoredLists, inactivityMode : InactivityModes]

NextStorage ==
    \/ LoadOk
    \/ LoadFail
    \/ \E value \in StoredLists : StorageSet("intentions", value)
    \/ \E value \in InactivityModes : StorageSet("inactivityMode", value)
    \/ \E value \in StoredValues : StorageSync(value)
    \/ \E h \in storageHandlers : \E getFailed \in BOOLEAN : StorageChangedResume(h, getFailed)

SpecStorage == Init /\ [][NextStorage]_vars

\* The storage.onChanged handler h ends in this step, in its catch.
FailsNow(h) ==
    /\ h \notin storageHandlers'
    /\ last'.ev = "storageChanged"
    /\ last'.queryFailed

\* C26: when a storage.onChanged handler ends in its catch, the intention
\* index and the settings snapshot are those in effect when its event arrived.
C26_FailureKeepsSnapshot ==
    [][\A h \in storageHandlers :
          FailsNow(h) => <<intentionIndex', settingsCache'>> = h.before]_vars

(***************************************************************************)
(* SpecStartup: startup with the intention "facebook.com" stored and never *)
(* changed.  The startup read of storage succeeds or rejects; tabs are     *)
(* created, focused, navigated and closed from the first moment on.        *)
(***************************************************************************)
InitStartup ==
    /\ Init
    /\ stored = [intentions |-> <<IntentionA>>, inactivityMode |-> "off"]

NextStartup ==
    \/ LoadOk
    \/ LoadFail
    \/ \E t \in Tabs : \E u \in CreatedUrls : TabCreated(t, u)
    \/ \E t \in Tabs : TabRemoved(t)
    \/ \E t \in Tabs : TabActivated(t)
    \/ \E t \in NavTabs : \E u \in NavUrls : Navigate(t, 0, u)
    \/ \E t \in Tabs : RedirectNavigate(t)
    \/ \E t \in Tabs : Committed(t, 0, tabNav[t])
    \/ \E h \in navHandlers : \E queryFailed \in BOOLEAN : BeforeNavigateResume(h, queryFailed)

SpecStartup == InitStartup /\ [][NextStartup]_vars

\* The index the process starts with, before anything is read from storage.
InitialIndex == createIntentionIndex(<<>>)

\* C27 as stated: with intentions stored, the index a before-navigate event is
\* evaluated against is never the initial empty index.
C27_NeverInitialIndex ==
    Decided => intentionIndex # InitialIndex

\* C27: a before-navigate event is evaluated only after the startup read of
\* storage has settled, and when that read succeeded it is evaluated against
\* the index built from the stored intentions.
C27_LoadedBeforeNavigation ==
    Decided =>
       /\ phase = "running"
       /\ focusListeners => intentionIndex = createIntentionIndex(<<IntentionA>>)

\* C27 witness: after a successful load a navigation to
\* https://www.facebook.com/g/1 was evaluated and redirected.
C27_Witness ==
    /\ Decided
    /\ focusListeners
    /\ last.targetUrl = FacebookGroup
    /\ last.redirect # NoUrl

\* C28: the tab URL cache and the tab-to-scope map hold no entry for a tab
\* that has been removed.
C28_RemovedTabForgotten ==
    \A t \in Tabs :
       tabState[t] = "closed" =>
          tabUrlMap[t] = NoUrl /\ intentionScopePerTabId[t] = NoScope

(***************************************************************************)
(* SpecHeartbeat: one tab, focused unless the window is blurred, with      *)
(* "facebook.com" stored and inactivity re-triggering on for all tabs.     *)
(* The tab navigates to facebook and to google, the user reflects, the     *)
(* intention is deleted and restored in the settings, time advances and    *)
(* the idle signal starts the heartbeat.                                   *)
(***************************************************************************)
InitHeartbeat ==
    /\ Init
    /\ stored = [intentions |-> <<IntentionA>>, inactivityMode |-> "all"]
    /\ \A t \in NavTabs : tabUrl[t] = AboutBlank

NextHeartbeat ==
    \/ LoadOk
    \/ \E t \in NavTabs : TabActivated(t)
    \/ WindowBlurred
    \/ \E t \in NavTabs : \E u \in NavUrls : Navigate(t, 0, u)
    \/ \E t \in NavTabs : RedirectNavigate(t)
    \/ \E t \in NavTabs : ReflectionComplete(t)
    \/ \E t \in NavTabs : Committed(t, 0, tabNav[t])
    \/ \E h \in navHandlers : BeforeNavigateResume(h, FALSE)
    \/ \E newState \in IdleStates : IdleStateChanged(newState)
    \/ \E origin \in checks : InactivityCheckResume(origin, FALSE)
    \/ \E value \in IntentionLists : StorageSet("intentions", value)
    \/ \E h \in storageHandlers : StorageChangedResume(h, FALSE)
    \/ Tick

SpecHeartbeat == InitHeartbeat /\ [][NextHeartbeat]_vars

\* C29: when the heartbeat redirects the focused tab, the URL it took for the
\* tab resolves, by lookup in the current index, to the scope it re-validates.
C29_HeartbeatRevalidatesByLookup ==
    (HeartbeatRan /\ last.redirect # NoUrl)
    => lookupIntentionScopeId(last.sourceUrl) = last.scope

\* The ids of the intentions in the current index.
IndexedIds ==
    UNION {{intentionIndex[key][i].id : i \in 1..Len(intentionIndex[key])} :
              key \in DOMAIN intentionIndex}

\* C30: the intention id that a redirect of a before-navigate handler, of the
\* focus listener or of the heartbeat carries is the id of an intention of
\* the current index.
C30_RedirectNamesIndexedIntention ==
    (last.ev \in {"decision", "activated", "inactivityCheck"} /\ last.redirect # NoUrl)
    => IntentionIdOf(last.redirect) \in IndexedIds

(***************************************************************************)
(* The bookkeeping of the focus listener, checked under SpecInactivity.    *)
(***************************************************************************)
\* C31: when the focus listener redirects a tab for an overdue scope, it has
\* recorded the tab as belonging to the scope and has set the scope's
\* activity time to the current time, as Rule 4 does.
C31_FocusRetriggerBookkeeping ==
    (Activated /\ last.redirect # NoUrl)
    => /\ intentionScopePerTabId[last.tabId] = last.scope
       /\ lastActiveByScope[last.scope] = now

(* The inactivity clock of an overdue scope, checked under SpecInactivity. *)
\* The scope's last activity is older than the configured timeout, with a
\* mode other than "off".
Overdue(id) ==
    shouldTriggerInactivity(id, settingsCache.inactivityMode,
                            settingsCache.inactivityTimeoutMs)

\* An intention page of the scope is shown, is being loaded or has been
\* requested in some tab.
ReflectionIssued(id) ==
    \E t \in Tabs : \E url \in {tabUrl[t], tabNav[t], tabReq[t]} :
        /\ url # NoUrl
        /\ startsWithIntentionPageUrl(url)
        /\ IntentionIdOf(url) = id

\* C32: a step that changes the activity time of an overdue scope requests a
\* redirect to the scope's intention page, or follows one (an intention page
\* of the scope is in some tab); a same-domain navigation that commits inside
\* the scope, or a tab of the scope becoming audible, does not reset the clock.
C32_OverdueNotSilentlyRefreshed ==
    [][\A id \in ScopeIds :
          (Overdue(id) /\ lastActiveByScope'[id] # lastActiveByScope[id])
          => \/ ReflectionIssued(id)
             \/ \E t \in Tabs : /\ tabReq'[t] # tabReq[t]
                                /\ tabReq'[t] # NoUrl
                                /\ IntentionIdOf(tabReq'[t]) = id]_vars

(* The writers of the activity timestamps.  One tab, already showing a page of
   the scope when the process starts, with the mode "all": the tab loses
   and gains focus, starts and stops audio, navigates (top-level and in a sub-frame),
   is closed, the intentions are saved again and time passes. *)
InitActivity ==
    /\ Init
    /\ stored = [intentions |-> <<IntentionA>>, inactivityMode |-> "all"]

NextActivity ==
    \/ LoadOk
    \/ \E t \in NavTabs : TabActivated(t)
    \/ WindowBlurred
    \/ \E t \in AudioTabs : \E audible \in BOOLEAN : TabUpdated(t, audible)
    \/ \E t \in NavTabs : TabRemoved(t)
    \/ \E t \in NavTabs : \E frameId \in {0, 1} : Navigate(t, frameId, FacebookGroup)
    \/ \E t \in NavTabs : RedirectNavigate(t)
    \/ \E t \in NavTabs : ReflectionComplete(t)
    \/ \E t \in NavTabs : \E frameId \in {0, 1} :
          Committed(t, frameId, IF frameId = 0 THEN tabNav[t] ELSE FacebookGroup)
    \/ \E h \in navHandlers : BeforeNavigateResume(h, FALSE)
    \/ \E newState \in IdleStates : IdleStateChanged(newState)
    \/ \E origin \in checks : InactivityCheckResume(origin, FALSE)
    \/ \E value \in IntentionLists : StorageSet("intentions", value)
    \/ \E h \in storageHandlers : StorageChangedResume(h, FALSE)
    \/ Tick

SpecActivity == InitActivity /\ [][NextActivity]_vars

\* The step ends a before-navigate handler with a Rule 4 redirect for the scope.
Rule4RedirectFor(id) ==
    /\ last'.ev = "decision"
    /\ last'.redirect # NoUrl
    /\ IntentionIdOf(last'.redirect) = id

\* The step is a top-level commit of a URL that matches the scope.
TopLevelCommitIn(id) ==
    \E t \in Tabs : /\ tabNav[t] # NoUrl
                    /\ tabNav'[t] = NoUrl
                    /\ tabUrl'[t] = tabNav[t]
                    /\ lookupIntentionScopeId(tabNav[t]) = id

\* The step is a tab becoming audible whose cached URL matches the scope.
BecomesAudibleIn(id) ==
    \E t \in Tabs : /\ ~tabAudible[t]
                    /\ tabAudible'[t]
                    /\ tabUrlMap[t] # NoUrl
                    /\ lookupIntentionScopeId(tabUrlMap[t]) = id

\* The step is a focus event on a tab of the scope that requests no redirect.
QuietFocusIn(id) ==
    /\ last'.ev = "activated"
    /\ last'.scope = id
    /\ last'.redirect = NoUrl

\* The step is a redirect by the focus listener or by the inactivity check.
InactivityRedirect ==
    /\ last'.ev \in {"activated", "inactivityCheck"}
    /\ last'.redirect # NoUrl

\* C33: a step changes the activity time of a scope only by setting it to the
\* current time, and only if it is a Rule 4 redirect for the scope, a
\* top-level commit of a matching URL, a tab with a matching cached URL
\* becoming audible, or a focus event on a tab of the scope that requests no
\* redirect; tab removal, audio stopping, storage changes and inactivity
\* redirects change no activity time, and an inactivity redirect is only
\* requested for a scope whose activity time was recorded.
C33_TimestampWriters ==
    [][/\ \A id \in ScopeIds :
             lastActiveByScope'[id] # lastActiveByScope[id]
             => /\ lastActiveByScope'[id] = now'
                /\ \/ Rule4RedirectFor(id)
                   \/ TopLevelCommitIn(id)
                   \/ BecomesAudibleIn(id)
                   \/ QuietFocusIn(id)
       /\ (\/ \E t \in Tabs : tabState[t] = "open" /\ tabState'[t] = "closed"
           \/ \E t \in Tabs : tabAudible[t] /\ ~tabAudible'[t]
           \/ stored' # stored
           \/ last'.ev = "storageChanged"
           \/ InactivityRedirect)
          => lastActiveByScope' = lastActiveByScope
       /\ InactivityRedirect => last'.lastActive # 0]_vars

\* C33 witness: after time has passed, a focus event on a tab of the scope
\* that requests no redirect has set the scope's activity time to the current
\* time.
C33_Witness ==
    /\ Activated
    /\ last.scope # NoScope
    /\ last.redirect = NoUrl
    /\ last.lastActive # 0
    /\ last.lastActive < now
    /\ lastActiveByScope[last.scope] = now

(* The language retries of the path step, checked under SpecMatch. *)
\* The path of the scope and the path of the target of a matcher run, as the
\* path step compares them.
MatchScopePath == parseUrlToScope(last.scopeUrl).path

MatchTargetPath == toComponents(normalizeUrl(parseUrlString(last.targetUrl))).path

\* C34: on the same host, a scope whose path starts with a language segment
\* accepts a target whose path starts with a different language segment and
\* has the same remainder (scope /en/events, target /sv/events).
C34_PathLanguageWildcard ==
    (/\ Matched
     /\ SameHost
     /\ extractLanguageFromPath(MatchScopePath).language # ""
     /\ extractLanguageFromPath(MatchTargetPath).language # ""
     /\ extractLanguageFromPath(MatchTargetPath).language
           # extractLanguageFromPath(MatchScopePath).language
     /\ extractLanguageFromPath(MatchTargetPath).remainingPath
           = extractLanguageFromPath(MatchScopePath).remainingPath)
    => last.matched

\* C35: on the same host, a scope with a path accepts exactly the targets for
\* which one of three prefix tests holds: the target path starts with the
\* scope path; the target path without its leading language segment starts
\* with the scope path (scope /groups, target /sv/groups); the target path
\* starts with the scope path without its leading language segment (scope
\* /en/events, target /events).  A language token in a later segment is not
\* stripped (scope /groups rejects /events/sv/groups).
C35_PathLanguageRetries ==
    (Matched /\ SameHost /\ MatchScopePath # <<>>)
    => /\ last.matched
             <=> \/ startsWith(MatchTargetPath, MatchScopePath)
                 \/ startsWith(extractLanguageFromPath(MatchTargetPath).remainingPath,
                               MatchScopePath)
                 \/ startsWith(MatchTargetPath,
                               extractLanguageFromPath(MatchScopePath).remainingPath)
       /\ (MatchScopePath = GroupsPath /\ MatchTargetPath = SvGroupsPath)
             => last.matched
       /\ (MatchScopePath = EnEventsPath /\ MatchTargetPath = EventsPath)
             => last.matched
       /\ (MatchScopePath = GroupsPath /\ MatchTargetPath = EventsSvGroupsPath)
             => ~last.matched
       /\ extractLanguageFromPath(EventsSvGroupsPath).remainingPath
             = EventsSvGroupsPath

\* C35 witness: the scope of https://facebook.com/groups accepted
\* https://www.facebook.com/sv/groups.
C35_Witness ==
    /\ Matched
    /\ last.scopeUrl = Web(FALSE, "", "facebook", "com", GroupsPath)
    /\ last.targetUrl = Web(TRUE, "", "facebook", "com", SvGroupsPath)
    /\ last.matched

(* Decisions and rebuilds of the index.  One tab navigates between
   facebook.com/, facebook.com/g/1, localhost and an IP literal while the stored intentions
   are replaced by each of the lists of "facebook.com" and "facebook.com/g";
   a storage read of the rebuild may fail. *)
\* Targets without a public registrable domain: http://localhost/ and an
\* IP literal such as http://192.168.0.1/.
UnparseableTargets ==
    {Localhost.url, [NoUrl EXCEPT !.kind = "ip", !.scheme = TRUE, !.path = <<"/">>]}

InitRebuild == Init /\ stored.inactivityMode = "off"

NextRebuild ==
    \/ LoadOk
    \/ \E t \in NavTabs : \E u \in {Facebook, FacebookGroup} \cup UnparseableTargets :
           Navigate(t, 0, u)
    \/ \E t \in NavTabs : RedirectNavigate(t)
    \/ \E t \in NavTabs : ReflectionComplete(t)
    \/ \E t \in NavTabs : Committed(t, 0, tabNav[t])
    \/ \E h \in navHandlers : BeforeNavigateResume(h, FALSE)
    \/ \E value \in StoredLists : StorageSet("intentions", value)
    \/ \E h \in storageHandlers : \E getFailed \in BOOLEAN : StorageChangedResume(h, getFailed)

SpecRebuild == InitRebuild /\ [][NextRebuild]_vars

\* The intentions of the installed index.
IndexedIntentions ==
    UNION {{intentionIndex[key][i] : i \in 1..Len(intentionIndex[key])} :
              key \in DOMAIN intentionIndex}

\* The intention has the registrable domain of the target and its scope
\* accepts the target.
Accepts(intention, targetUrl) ==
    /\ parseUrlToScope(targetUrl) # NoScopeRecord
    /\ IndexKey(ScopeOf(intention)) = IndexKey(parseUrlToScope(targetUrl))
    /\ matchesIntentionScopeIgnoringDomain(targetUrl, ScopeOf(intention))

\* Rules 1, 2 and 3 do not allow the navigation of a decision.
RulesFail(ev) ==
    /\ ~(ev.sourceUrl # NoUrl /\ domainEquals(ev.sourceUrl, ev.targetUrl))
    /\ ~(ev.sourceUrl # NoUrl /\ startsWithIntentionPageUrl(ev.sourceUrl))
    /\ ~(/\ ev.activeTabId # ev.tabId
         /\ ev.activeTabUrl # NoUrl
         /\ domainEquals(ev.activeTabUrl, ev.targetUrl))

\* C36: a rebuild that read the storage installs an index of exactly the
\* stored intentions, only the startup load and a rebuild replace the index,
\* and a before-navigate decision leaves the index as it is and is the lookup
\* against the whole of the index installed when it resumes: it redirects to
\* the most specific intention of that index that accepts the target, and
\* does not redirect under Rule 4 only if no intention of that index accepts it.
C36_OneIndexPerDecision ==
    [][/\ (last'.ev = "storageChanged" /\ last'.origin = "intentions"
             /\ ~last'.queryFailed)
          => IndexedIntentions' =
                {stored.intentions[i] : i \in 1..Len(stored.intentions)}
       /\ intentionIndex' # intentionIndex
          => (phase = "loading" \/ last'.ev = "storageChanged")
       /\ last'.ev = "decision"
          => /\ intentionIndex' = intentionIndex
             /\ LET hits == {x \in IndexedIntentions : Accepts(x, last'.targetUrl)} IN
                /\ last'.redirect # NoUrl
                   => \E x \in hits :
                         /\ last'.redirect = IntentionPageFor(last'.targetUrl, x.id)
                         /\ \A y \in hits : ScopeOf(y).urlLength <= ScopeOf(x).urlLength
                /\ (last'.redirect = NoUrl /\ RulesFail(last')) => hits = {}]_vars

\* C36 witness: a navigation to facebook.com/g/1 started with only
\* "facebook.com" in the index; "facebook.com/g" was added and the index rebuilt
\* while the handler was suspended; the decision redirected to the intention
\* page of "facebook.com/g".
C36_Witness ==
    /\ last.ev = "decision"
    /\ last.targetUrl = FacebookGroup
    /\ last.redirect = IntentionPageFor(FacebookGroup, IntentionB.id)
    /\ stored.intentions = <<IntentionA, IntentionB>>
    /\ intentionScopePerTabId[last.tabId] = IntentionB.id

(* Targets that do not parse, checked under SpecRebuild. *)
\* The URL has a public registrable domain and is not a page of the extension.
PublicWebUrl(url) == url.kind = "web" /\ ~startsWithIntentionPageUrl(url)

\* The URLs of the tabs: shown, loading or requested.
TabUrls == {tabUrl[t] : t \in Tabs} \cup {tabNav[t] : t \in Tabs}
              \cup {tabReq[t] : t \in Tabs}

\* C37: a before-navigate decision whose target is an IP literal, a private
\* host or a page of the extension requests no redirect, and so does every
\* decision taken with an empty index; the lookup of such a target in the
\* installed index, and of every URL in the empty index, returns no intention.
C37_UnparseableTargetNeverRedirects ==
    [][/\ (last'.ev = "decision" /\ ~PublicWebUrl(last'.targetUrl))
          => (last'.redirect = NoUrl /\ tabReq' = tabReq)
       /\ (last'.ev = "decision" /\ DOMAIN intentionIndex = {})
          => (last'.redirect = NoUrl /\ tabReq' = tabReq)
       /\ \A u \in UnparseableTargets \cup TabUrls :
             /\ ~PublicWebUrl(u) => lookupIntention(u, intentionIndex) = NoIntention
             /\ lookupIntention(u, createIntentionIndex(<<>>)) = NoIntention]_vars

\* C37 witness: with an intention in the index, the before-navigate of the
\* engine's own redirect to the intention page of facebook.com/g/1 was decided
\* under Rule 4 and requested no redirect.
C37_Witness ==
    /\ last.ev = "decision"
    /\ startsWithIntentionPageUrl(last.targetUrl)
    /\ TargetOf(last.targetUrl) = FacebookGroup
    /\ RulesFail(last)
    /\ IndexedIntentions # {}
    /\ last.redirect = NoUrl

(* The tab URL cache, checked under SpecNav. *)
\* The step is the tab-created event of the tab.
CreatedStep(t) == tabState[t] = "new" /\ tabState'[t] = "open"

\* The step is the commit of the top-level navigation of the tab.
TopLevelCommitStep(t) ==
    /\ tabState'[t] = "open"
    /\ tabNav[t] # NoUrl
    /\ tabNav'[t] = NoUrl

\* C38: once the listeners are registered, a tab-created event with a URL and
\* a top-level commit put the event's URL in the tab URL cache of the tab, and
\* a commit of a URL that matches an intention records the tab as belonging
\* to the intention's scope; the cache of a tab changes in no other step than
\* these and the removal of the tab (not in a sub-frame commit, not in a
\* before-navigate event), so the cache of an open tab, when it holds a URL,
\* holds the URL of the tab's most recent created or committed event.
C38_TabUrlCache ==
    [][\A t \in Tabs :
          /\ (phase = "running" /\ CreatedStep(t) /\ tabUrl'[t] # NoUrl)
             => tabUrlMap'[t] = tabUrl'[t]
          /\ (phase = "running" /\ TopLevelCommitStep(t))
             => /\ tabUrl'[t] = tabNav[t]
                /\ tabUrlMap'[t] = tabNav[t]
                /\ lookupIntention(tabNav[t], intentionIndex) # NoIntention
                   => intentionScopePerTabId'[t] =
                         lookupIntention(tabNav[t], intentionIndex).id
          /\ tabUrlMap'[t] # tabUrlMap[t]
             => (CreatedStep(t) \/ TopLevelCommitStep(t) \/ tabState'[t] = "closed")
          /\ (tabState'[t] = "open" /\ tabUrlMap'[t] # NoUrl)
             => tabUrlMap'[t] = tabUrl'[t]]_vars

\* C38 witness: tab 2 was created on facebook.com and tab 1 committed
\* facebook.com/g/1; the cache holds both URLs and tab 1 belongs to the scope
\* of "facebook.com".
C38_Witness ==
    /\ \A t \in Tabs : tabState[t] = "open" /\ tabUrlMap[t] = tabUrl[t]
    /\ \E t \in Tabs : tabUrlMap[t] = Facebook /\ intentionScopePerTabId[t] = NoScope
    /\ \E t \in Tabs : /\ tabUrlMap[t] = FacebookGroup
                       /\ intentionScopePerTabId[t] = IntentionA.id

(* A failed startup load.  "facebook.com" is stored with the mode "all"; the
   load fails; afterwards the tab navigates, gains and loses
   focus, starts and stops audio, is closed, a second tab is created, the
   intentions and the mode are saved again and time passes. *)
InitLoadFailure ==
    /\ Init
    /\ stored = [intentions |-> <<IntentionA>>, inactivityMode |-> "all"]

NextLoadFailure ==
    \/ LoadFail
    \/ \E t \in Tabs \ NavTabs : TabCreated(t, Facebook)
    \/ \E t \in NavTabs : TabRemoved(t)
    \/ \E t \in NavTabs : TabActivated(t)
    \/ WindowBlurred
    \/ \E t \in AudioTabs : \E audible \in BOOLEAN : TabUpdated(t, audible)
    \/ \E t \in NavTabs : Navigate(t, 0, FacebookGroup)
    \/ \E t \in NavTabs : RedirectNavigate(t)
    \/ \E t \in NavTabs : ReflectionComplete(t)
    \/ \E t \in NavTabs : Committed(t, 0, tabNav[t])
    \/ \E h \in navHandlers : BeforeNavigateResume(h, FALSE)
    \/ \E value \in IntentionLists : StorageSet("intentions", value)
    \/ \E value \in {"off", "all"} : StorageSet("inactivityMode", value)
    \/ \E h \in storageHandlers : StorageChangedResume(h, FALSE)
    \/ Tick

SpecLoadFailure == InitLoadFailure /\ [][NextLoadFailure]_vars

\* The step ends the startup load with the stored intentions not installed:
\* the load failed.
LoadFailedStep ==
    /\ phase = "loading"
    /\ phase' = "running"
    /\ stored.intentions # <<>>
    /\ intentionIndex' = InitialIndex

\* The process runs after a failed startup load.
LoadFailed == phase = "running" /\ ~focusListeners

\* The step is a successful rebuild of the index by the storage listener.
IntentionsRebuilt ==
    /\ last'.ev = "storageChanged"
    /\ last'.origin = "intentions"
    /\ ~last'.queryFailed

\* C39: a startup load that fails leaves the focus and audio listeners
\* unregistered, and they stay unregistered.  After it, the tab-created,
\* committed, removed and before-navigate listeners run; the index is the
\* empty one until a successful rebuild by the storage listener, and every
\* decision taken with it requests no redirect; a focus event runs no focus
\* handler, requests no redirect and changes no activity time, and a tab
\* becoming audible changes no activity time.
C39_LoadFailureContained ==
    [][/\ LoadFailedStep => ~focusListeners'
       /\ LoadFailed
          => /\ LoadFailed'
             /\ \A t \in Tabs :
                   /\ (CreatedStep(t) /\ tabUrl'[t] # NoUrl) => tabUrlMap'[t] = tabUrl'[t]
                   /\ TopLevelCommitStep(t) => tabUrlMap'[t] = tabNav[t]
                   /\ (tabState[t] = "open" /\ tabState'[t] = "closed")
                      => tabUrlMap'[t] = NoUrl
                   /\ (tabNav'[t] # tabNav[t] /\ tabNav'[t] # NoUrl)
                      => \E h \in navHandlers' \ navHandlers :
                            h.tabId = t /\ h.targetUrl = tabNav'[t]
             /\ intentionIndex' # intentionIndex => IntentionsRebuilt
             /\ (last'.ev = "decision" /\ intentionIndex = InitialIndex)
                => (last'.redirect = NoUrl /\ tabReq' = tabReq)
             /\ last'.ev # "activated"
             /\ (activeTab' # activeTab /\ activeTab' # NoTab)
                => (tabReq' = tabReq /\ lastActiveByScope' = lastActiveByScope)
             /\ tabAudible' # tabAudible
                => lastActiveByScope' = lastActiveByScope]_vars

\* C39 witness: after a failed load, the mode "all" and the index of
\* "facebook.com" were installed by later storage events; the tab of the scope
\* is audible and focused, the scope's activity is older than the timeout, and
\* no redirect is requested.
C39_Witness ==
    /\ LoadFailed
    /\ settingsCache.inactivityMode = "all"
    /\ intentionIndex # InitialIndex
    /\ \E t \in NavTabs :
          /\ activeTab = t
          /\ tabAudible[t]
          /\ tabUrlMap[t] = FacebookGroup
          /\ Overdue(IntentionA.id)
          /\ tabReq[t] = NoUrl

====
